---- MODULE Spec2Model ----
(***************************************************************************)
(* Matching engine of the attendance backend (attendanceService): the scan *)
(* entry point processScan / processFingerprintScan with its legacy        *)
(* lecture branch, and the absence sweep autoMarkAbsentForSubject, run by  *)
(* concurrent callers that interleave at their persistence awaits.         *)
(*                                                                         *)
(* Time.  An instant is a whole number of seconds since the epoch (UTC).   *)
(* The server's timezone offset tz (seconds east of UTC) separates the     *)
(* local getters (getDay, toTimeString, setHours) from toISOString.        *)
(* A time-of-day column ('time') is a number of seconds after midnight.    *)
(*                                                                         *)
(* Device side.  The TCP client of a terminal (TcpDeviceClient) with the   *)
(* events of its socket and timers, and the scheduler that runs one sync   *)
(* step per device (DeviceSyncScheduler), in SyncSpec and ClientSpec.      *)
(***************************************************************************)
EXTENDS Integers, Sequences, FiniteSets, TLC

\* ---------------------------------------------------------------- bounds
MaxProcs == 2
MaxCalls == 2
MaxSweeps == 2
MaxBatch == 2
MaxBatches == 1
MaxCycles == 1
MaxTriggers == 1
MaxPackets == 4
MaxEncodes == 3
MaxPayload == 3
MaxStream == 4
MaxChunk == 3
MaxRequests == 2
MaxRecords == 3
MaxRows == 1
MaxRuns == 2
MaxStarts == 3
MaxSteps == 2

Procs == 1..MaxProcs

\* ------------------------------------------------------------- time base
DaySeconds == 86400
HourSeconds == 3600
MinuteSeconds == 60
EpochDay == 4
WeekDays == 7

TzOffsets == {0, 3 * HourSeconds}

HMS(h, m, s) == h * HourSeconds + m * MinuteSeconds + s

\* Date.prototype.toISOString().split('T')[0]: the UTC calendar day
isoDate(ts) == ts \div DaySeconds

\* Date.prototype.getDay(): day of week of the local calendar day
getDay(ts, z) == (((ts + z) \div DaySeconds) + EpochDay) % WeekDays

\* Date.prototype.toTimeString().slice(0, 8): local time of day, HH:MM:SS
toTimeString(ts, z) == (ts + z) % DaySeconds

\* d = new Date(ts); d.setHours(h, m, 0, 0): same local day, given h:m:00
setHours(ts, z, h, m) == ((ts + z) \div DaySeconds) * DaySeconds + HMS(h, m, 0) - z

\* 'HH:MM:SS'.split(':').map(Number), first two elements
splitHour(t) == t \div HourSeconds
splitMinute(t) == (t % HourSeconds) \div MinuteSeconds

\* the instant whose local wall clock shows day d, time of day t
localInstant(d, t, z) == d * DaySeconds + t - z

\* ------------------------------------------------------ read-only tables
NoValue == "none"
NoDay == 0 - 1

Student == {
  [student_id |-> "s1", biometric_user_id |-> "b1", name |-> 1,
   academic_stage |-> "stage_1", status |-> "active"],
  [student_id |-> "s2", biometric_user_id |-> "b2", name |-> 2,
   academic_stage |-> "stage_1", status |-> "active"],
  [student_id |-> "s3", biometric_user_id |-> "b3", name |-> 3,
   academic_stage |-> "stage_1", status |-> "inactive"],
  [student_id |-> "s4", biometric_user_id |-> "b4", name |-> 4,
   academic_stage |-> "stage_2", status |-> "suspended"],
  [student_id |-> "s5", biometric_user_id |-> "b5", name |-> 5,
   academic_stage |-> "stage_2", status |-> "active"] }

DayP == WeekDays + 2
DayA == DayP + WeekDays

Subject == {
  [subject_id |-> "sub1", day_of_week |-> (DayA + EpochDay) % WeekDays, specific_date |-> NoDay,
   start_time |-> HMS(9, 0, 0), end_time |-> HMS(10, 0, 0),
   academic_stage |-> "stage_1", status |-> "active"],
  [subject_id |-> "sub2", day_of_week |-> NoDay, specific_date |-> DayA,
   start_time |-> HMS(11, 0, 15), end_time |-> HMS(12, 0, 30),
   academic_stage |-> "stage_2", status |-> "active"],
  [subject_id |-> "sub3", day_of_week |-> (DayA + EpochDay) % WeekDays, specific_date |-> NoDay,
   start_time |-> HMS(14, 0, 0), end_time |-> HMS(15, 0, 0),
   academic_stage |-> "stage_1", status |-> "inactive"] }

Lecture == {
  [lecture_id |-> "lec1", day_of_week |-> (DayA + EpochDay) % WeekDays, specific_date |-> NoDay,
   start_time |-> HMS(14, 0, 0), end_time |-> HMS(15, 0, 0)] }

\* table devices: two reachable terminals, one registered without an address,
\* one deactivated
DeviceRow == {
  [device_id |-> "d1", ip_address |-> "ip1", is_active |-> TRUE],
  [device_id |-> "d2", ip_address |-> "ip2", is_active |-> TRUE],
  [device_id |-> "d3", ip_address |-> NoValue, is_active |-> TRUE],
  [device_id |-> "d4", ip_address |-> "ip4", is_active |-> FALSE] }

Device == {d.device_id : d \in DeviceRow}

\* a scan as the terminal's wall clock shows it: local day and time of day
Reading(u, d, t, dev, ty) ==
  [biometric_user_id |-> u, day |-> d, time |-> t, device_id |-> dev, event_type |-> ty]

\* the ProcessScanDto a producer passes for a reading
ScanDto(r, z) ==
  [biometric_user_id |-> r.biometric_user_id,
   timestamp |-> localInstant(r.day, r.time, z),
   device_id |-> r.device_id, event_type |-> r.event_type]

SweepArg(subj, d) == [subject_id |-> subj, date |-> d]

\* what the producers of one run may submit: the scans they may send (each any
\* number of times) and the sweeps the trigger may start; history is the scan,
\* if any, that was processed to completion before the run starts
PriorSubjectScan == Reading("b1", DayP, HMS(9, 5, 0), "d1", "fingerprint")
PriorLectureScan == Reading("b1", DayP, HMS(14, 5, 0), "d1", "fingerprint")

Workloads == {
  \* one student, one subject window, two dates, and the sweep of that window
  [scans |-> {Reading("b1", DayA, HMS(9, 5, 0), "d1", "fingerprint"), PriorSubjectScan},
   sweeps |-> {SweepArg("sub1", DayA)}, history |-> <<>>],
  [scans |-> {Reading("b1", DayA, HMS(9, 5, 0), "d1", "fingerprint")},
   sweeps |-> {SweepArg("sub1", DayA)}, history |-> <<PriorSubjectScan>>],
  \* the legacy lecture window (its subject twin is inactive), and no window at all
  [scans |-> {Reading("b1", DayA, HMS(14, 5, 0), "d1", "fingerprint"), PriorLectureScan,
              Reading("b2", DayA, HMS(8, 0, 0), "d1", "fingerprint")},
   sweeps |-> {}, history |-> <<>>],
  [scans |-> {Reading("b1", DayA, HMS(14, 5, 0), "d1", "fingerprint")},
   sweeps |-> {}, history |-> <<PriorLectureScan>>],
  \* other modalities, unknown and non-active identities
  [scans |-> {Reading("b1", DayA, HMS(9, 5, 0), "d1", "card"),
              Reading("b1", DayA, HMS(9, 5, 0), "d1", "face"),
              Reading("b9", DayA, HMS(9, 5, 0), "d1", "fingerprint"),
              Reading("b3", DayA, HMS(9, 5, 0), "d1", "fingerprint")},
   sweeps |-> {}, history |-> <<>>],
  \* scans that carry no device_id
  [scans |-> {Reading("b1", DayA, HMS(9, 40, 0), NoValue, "fingerprint"),
              Reading("b1", DayA, HMS(9, 5, 0), NoValue, "card"),
              Reading("b9", DayA, HMS(9, 5, 0), NoValue, "fingerprint"),
              Reading("b4", DayA, HMS(9, 5, 0), NoValue, "fingerprint")},
   sweeps |-> {}, history |-> <<>>],
  \* the boundaries of an HH:MM window
  [scans |-> {Reading("b1", DayA, HMS(8, 59, 59), "d1", "fingerprint"),
              Reading("b1", DayA, HMS(9, 0, 0), "d1", "fingerprint"),
              Reading("b2", DayA, HMS(10, 0, 0), "d1", "fingerprint"),
              Reading("b2", DayA, HMS(10, 0, 1), "d1", "fingerprint")},
   sweeps |-> {}, history |-> <<>>],
  \* the boundaries of an HH:MM:SS window
  [scans |-> {Reading("b1", DayA, HMS(11, 0, 14), "d1", "fingerprint"),
              Reading("b1", DayA, HMS(11, 0, 15), "d1", "fingerprint"),
              Reading("b2", DayA, HMS(12, 0, 30), "d1", "fingerprint"),
              Reading("b2", DayA, HMS(12, 0, 31), "d1", "fingerprint")},
   sweeps |-> {}, history |-> <<>>],
  \* the sweep of the HH:MM:SS window, and of an id that names no subject
  [scans |-> {Reading("b5", DayA, HMS(11, 5, 0), "d1", "fingerprint")},
   sweeps |-> {SweepArg("sub2", DayA), SweepArg("sub9", DayA)}, history |-> <<>>],
  \* scans with and without a device_id side by side
  [scans |-> {Reading("b1", DayA, HMS(9, 5, 0), NoValue, "fingerprint"),
              Reading("b1", DayA, HMS(9, 5, 0), "d1", "fingerprint"),
              Reading("b2", DayA, HMS(9, 10, 0), "d1", "card")},
   sweeps |-> {}, history |-> <<>>] }

NoDto == [biometric_user_id |-> NoValue, timestamp |-> 0, device_id |-> NoValue,
          event_type |-> NoValue]
NoWindow == [kind |-> NoValue, id |-> NoValue]
NoSweep == [subject_id |-> NoValue, date |-> NoDay]

\* ------------------------------------------------------------------ state
VARIABLES
  tz,           \* server timezone offset, fixed for a run
  workload,     \* what the producers may submit, fixed for a run
  rawLogs,      \* table device_logs_raw, in insertion order; raw_log_id = index
  attendance,   \* table attendance_records, in insertion order; attendance_id = index
  createdBy,    \* per attendance row, the operation that inserted it
  lastSync,     \* devices.last_sync_time per device, as the number of updates so far
  auditLog,     \* audit_logs rows written by logAttendanceAction
  pc,           \* per caller: the await at which its processFingerprintScan stands
  data,         \* per caller: the ProcessScanDto argument
  rawLog,       \* per caller: raw_log_id returned by storeRawLog (0: none)
  student,      \* per caller: student_id found by findByBiometricId
  window,       \* per caller: subjects[0] or lectures[0]
  saved,        \* per caller: attendance_id returned by save (0: none)
  result,       \* per caller: "record", "null", or "error" (promise rejected)
  reason,       \* per caller: the console.log branch on which it returned null
  syncAt,       \* per caller: value its updateLastSyncTime wrote (0: no update)
  ncalls,       \* number of processScan calls started
  overlapped,   \* some call started while another call was still running
  sweepPc,      \* the await at which autoMarkAbsentForSubject stands
  sweepArg,     \* its (subjectId, date) arguments
  absentStudents, \* its list of students still to insert, in loop order
  nsweeps,      \* number of sweeps started
  batchPc,      \* the point at which processBatchScans stands
  batchCaller,  \* the caller slot its processFingerprintScan calls run in (0: none)
  batchScans,   \* its scans argument
  batchResults, \* its results array
  nbatches,     \* number of batches started
  client,       \* per TcpDeviceClient instance: its fields, listeners, promises, packets
  step,         \* per client: the await at which the syncDevice run owning it stands
  cycle,        \* per scheduler cycle: where syncAllDevices stands, devices left
  trigger,      \* per triggerSync call: where it stands, its argument, its result
  crashed,      \* the client whose uncaught exception has ended the process
  ncycles,      \* number of cycles started
  ntriggers,    \* number of triggerSync calls started
  sched,        \* the DeviceSyncScheduler instance: its fields and the timers it has armed
  codec,        \* a client instance seen through createPacket: its counters, its last packet
  serial,       \* the SerialDeviceClient instance: its fields, its sendCommand calls
  usb           \* one POST /:id/import-usb request: its file, where it stands, its response

tables == <<rawLogs, attendance, createdBy, lastSync, auditLog>>
locals == <<pc, data, rawLog, student, window, saved, result, reason, syncAt>>
sweepVars == <<sweepPc, sweepArg, absentStudents, nsweeps>>
batchVars == <<batchPc, batchCaller, batchScans, batchResults, nbatches>>
deviceSide == <<client, step, cycle, trigger, crashed, ncycles, ntriggers, sched>>
standalone == <<codec, serial, usb>>
others == <<batchVars, deviceSide, standalone>>
matching == <<locals, ncalls, overlapped, sweepVars, batchVars, standalone, sched>>
online == <<tz, workload, tables, locals, ncalls, overlapped, sweepVars, batchVars, deviceSide>>
vars == <<tz, workload, tables, locals, ncalls, overlapped, sweepVars, others>>

\* ---------------------------------------------------------------- queries
\* studentService.findByBiometricId: the row with that unique biometric id
findByBiometricId(b) == {s \in Student : s.biometric_user_id = b}

\* subjectService.findActiveAtTime: the SQL predicate of the query
subjectFindActiveAtTime(ts, z) ==
  LET dayOfWeek == getDay(ts, z)
      dateStr == isoDate(ts)
      timeStr == toTimeString(ts, z)
  IN {s \in Subject :
        /\ s.status = "active"
        /\ (s.day_of_week = dayOfWeek \/ s.specific_date = dateStr)
        /\ s.start_time <= timeStr
        /\ s.end_time >= timeStr}

\* lectureService.findActiveAtTime
lectureFindActiveAtTime(ts, z) ==
  LET dayOfWeek == getDay(ts, z)
      dateStr == isoDate(ts)
      timeStr == toTimeString(ts, z)
  IN {l \in Lecture :
        /\ (l.day_of_week = dayOfWeek \/ l.specific_date = dateStr)
        /\ l.start_time <= timeStr
        /\ l.end_time >= timeStr}

\* subjectService.isWithinTimeWindow
isWithinTimeWindow(ts, z, s) ==
  LET subjectStart == setHours(ts, z, splitHour(s.start_time), splitMinute(s.start_time))
      subjectEnd == setHours(ts, z, splitHour(s.end_time), splitMinute(s.end_time))
  IN ts >= subjectStart /\ ts <= subjectEnd

\* studentService.findByAcademicStage: active students of the stage, by name
findByAcademicStage(stage) ==
  {s \in Student : s.academic_stage = stage /\ s.status = "active"}

\* r.attendance_date?.toISOString().split('T')[0] || r.scan_timestamp.toISOString().split('T')[0]
recordDate(r) ==
  IF r.attendance_date # NoDay THEN r.attendance_date ELSE isoDate(r.scan_timestamp)

\* rows of attendance_records matching a findOne / find 'where' clause
subjectRows(sid, subj) ==
  {i \in DOMAIN attendance :
     attendance[i].student_id = sid /\ attendance[i].subject_id = subj}
lectureRows(sid, lec) ==
  {i \in DOMAIN attendance :
     attendance[i].student_id = sid /\ attendance[i].lecture_id = lec}

\* the same update writing the whole row back with a new log_timestamp
markProcessedTouching(id) ==
  [rawLogs EXCEPT ![id].processed = TRUE, ![id].log_timestamp = @ + 1]

\* deviceLogRepository.update(raw_log_id, { processed: true })
markProcessed(id) == [rawLogs EXCEPT ![id].processed = TRUE]

\* --------------------------------------------------------------- Init
\* the rows processScan writes for one scan: device_logs_raw, attendance_records
rawLogRow(dto, done) ==
  [biometric_user_id |-> dto.biometric_user_id,
   device_id |-> dto.device_id,
   log_timestamp |-> dto.timestamp,
   event_type |-> dto.event_type,
   processed |-> done]

presentRow(sid, w, dto, raw) ==
  [student_id |-> sid,
   subject_id |-> IF w.kind = "subject" THEN w.id ELSE NoValue,
   lecture_id |-> IF w.kind = "lecture" THEN w.id ELSE NoValue,
   attendance_date |-> IF w.kind = "subject" THEN isoDate(dto.timestamp) ELSE NoDay,
   scan_timestamp |-> dto.timestamp,
   device_id |-> dto.device_id,
   status |-> "present",
   source |-> "fingerprint",
   raw_log_id |-> raw]

auditRow(action, sid, subj) == [action |-> action, target_id |-> sid, subject_id |-> subj]

\* the window processScan picks for an instant when exactly one matches
onlyWindow(ts, z) ==
  IF subjectFindActiveAtTime(ts, z) # {}
    THEN [kind |-> "subject",
          id |-> (CHOOSE s \in subjectFindActiveAtTime(ts, z) : TRUE).subject_id]
    ELSE [kind |-> "lecture",
          id |-> (CHOOSE l \in lectureFindActiveAtTime(ts, z) : TRUE).lecture_id]

\* no call, sweep or batch has started
callersIdle ==
  /\ pc = [p \in Procs |-> "idle"]
  /\ data = [p \in Procs |-> NoDto]
  /\ rawLog = [p \in Procs |-> 0]
  /\ student = [p \in Procs |-> NoValue]
  /\ window = [p \in Procs |-> NoWindow]
  /\ saved = [p \in Procs |-> 0]
  /\ result = [p \in Procs |-> NoValue]
  /\ reason = [p \in Procs |-> NoValue]
  /\ syncAt = [p \in Procs |-> 0]
  /\ ncalls = 0
  /\ overlapped = FALSE
  /\ sweepPc = "idle"
  /\ sweepArg = NoSweep
  /\ absentStudents = <<>>
  /\ nsweeps = 0
  /\ batchPc = "idle"
  /\ batchCaller = 0
  /\ batchScans = <<>>
  /\ batchResults = <<>>
  /\ nbatches = 0

\* the client instances a run may create: one per device and cycle, one per
\* device and triggerSync call, and one held by a direct user of the class
TheClient == <<"user", 1, "d1">>
ClientIds ==
  {<<"cycle", k, d>> : k \in 1..MaxRuns, d \in Device}
    \cup {<<"trigger", t, d>> : t \in 1..MaxTriggers, d \in Device}
    \cup {TheClient}

NoSession == 0 - 1
NoClient == <<NoValue, 0, NoValue>>
NoResult == [success |-> FALSE, message |-> NoValue]

\* new TcpDeviceClient(ip): the fields of the instance, the listeners on it,
\* the promises of its pending calls and the packets written so far;
\* called is the last method called on it, ackSession the session id field of
\* the ACK_OK that made it connected, peerSession the session id the terminal
\* has given to the connection
NewClient ==
  [socket |-> "null", connected |-> FALSE, sessionId |-> 0, replyId |-> 0,
   connectP |-> "none", fetchP |-> "none", timeP |-> "none", onConnected |-> 0,
   onError |-> 0,
   sent |-> <<>>, called |-> NoValue, ackSession |-> NoSession,
   peerSession |-> NoSession]
\* createPacket has not been called: the counters of a new instance
NoArg == [command |-> 0, data |-> <<>>]
NewCodec ==
  [sessionId |-> 0, replyId |-> 0, packet |-> <<>>, arg |-> NoArg, used |-> 0,
   count |-> 0, threw |-> FALSE]

\* a new SerialDeviceClient, with what has gone through its port so far:
\* received is every byte the port has handed to handleData, responses the
\* 'response' events emitted, written the frames given to port.write, calls
\* the sendCommand calls made
NewSerial ==
  [port |-> "null", connected |-> FALSE, buffer |-> <<>>, responses |-> <<>>,
   received |-> <<>>, written |-> <<>>, calls |-> <<>>]

\* no import request: ext is the extension of the uploaded file's name, dat
\* its bytes when it is binary, csv its header cells and the cells of its data
\* rows when it is text; logs is what parseFile returned
NewUsb ==
  [ext |-> "", dat |-> <<>>, csv |-> [header |-> <<>>, rows |-> <<>>],
   state |-> "none", logs |-> <<>>, error |-> "", total_logs |-> 0,
   records_created |-> 0]

standaloneIdle == codec = NewCodec /\ serial = NewSerial /\ usb = NewUsb

\* no DeviceSyncScheduler yet (syncInterval 0): once constructed, its fields
\* and the timers it has armed and not cleared: intervals of setInterval,
\* jobs of cron.schedule, warmups of setTimeout; nstarts counts the start()
\* calls that found it not running
NewSched ==
  [syncInterval |-> 0, isRunning |-> FALSE, cronJob |-> "null", intervals |-> 0,
   jobs |-> 0, warmups |-> 0, nstarts |-> 0]

\* no cycle or triggerSync has started, no client has been used
devicesIdle ==
  /\ sched = NewSched
  /\ client = [c \in ClientIds |-> NewClient]
  /\ step = [c \in ClientIds |-> NoValue]
  /\ cycle = [k \in 1..MaxRuns |-> [pc |-> "idle", devices |-> <<>>]]
  /\ trigger = [t \in 1..MaxTriggers |-> [pc |-> "idle", deviceId |-> NoValue, result |-> NoResult]]
  /\ crashed = NoClient
  /\ ncycles = 0
  /\ ntriggers = 0

\* The tables at the start of a run: empty, or as one earlier processScan of a
\* known, active student inside a window left them (one processed raw log,
\* one present record, its audit row on the subject branch, one device update).
Init ==
  /\ tz \in TzOffsets
  /\ workload \in Workloads
  /\ IF workload.history = <<>>
       THEN /\ rawLogs = <<>>
            /\ attendance = <<>>
            /\ createdBy = <<>>
            /\ lastSync = [d \in Device |-> 0]
            /\ auditLog = <<>>
       ELSE LET dto == ScanDto(workload.history[1], tz)
                sid == (CHOOSE s \in findByBiometricId(dto.biometric_user_id) : TRUE).student_id
                w == onlyWindow(dto.timestamp, tz)
            IN /\ rawLogs = <<rawLogRow(dto, TRUE)>>
               /\ attendance = <<presentRow(sid, w, dto, 1)>>
               /\ createdBy = <<"processScan">>
               /\ lastSync = [d \in Device |-> IF d = dto.device_id THEN 1 ELSE 0]
               /\ auditLog = IF w.kind = "subject"
                               THEN <<auditRow("attendance_recorded", sid, w.id)>>
                               ELSE <<>>
  /\ callersIdle
  /\ devicesIdle
  /\ standaloneIdle

running(p) == pc[p] \notin {"idle", "done"}
sweepRunning == sweepPc \notin {"idle", "done", "failed"}

env == <<tz, workload>>
outcome == <<result, reason>>

\* the promise of caller p settles: r is "null", "record" or "error"; why names
\* the branch that returned
settle(p, r, why) ==
  /\ pc' = [pc EXCEPT ![p] = "done"]
  /\ result' = [result EXCEPT ![p] = r]
  /\ reason' = [reason EXCEPT ![p] = why]

\* caller p goes on to its next await
goto(p, label) ==
  /\ pc' = [pc EXCEPT ![p] = label]
  /\ UNCHANGED outcome

\* ------------------------------------------- processScan / processFingerprintScan
\* a producer calls processScan(data)
processScan(p, dto) ==
  /\ pc[p] = "idle"
  /\ ncalls < MaxCalls
  /\ ncalls' = ncalls + 1
  /\ pc' = [pc EXCEPT ![p] = "storeRawLog"]
  /\ data' = [data EXCEPT ![p] = dto]
  /\ overlapped' = (overlapped \/ sweepRunning \/ \E q \in Procs \ {p} : running(q))
  /\ UNCHANGED <<env, others, tables, rawLog, student, window, saved, outcome, syncAt, sweepVars>>

\* step 1: storeRawLog.  device_logs_raw.device_id is a NOT NULL column: the
\* insert of a log without device_id is refused and the promise rejects.
storeRawLog(p) ==
  /\ pc[p] = "storeRawLog"
  /\ IF data[p].device_id = NoValue
       THEN /\ settle(p, "error", "raw_log_rejected")
            /\ UNCHANGED <<rawLogs, rawLog>>
       ELSE /\ rawLogs' = Append(rawLogs,
                 [biometric_user_id |-> data[p].biometric_user_id,
                  device_id |-> data[p].device_id,
                  log_timestamp |-> data[p].timestamp,
                  event_type |-> data[p].event_type,
                  processed |-> FALSE])
            /\ rawLog' = [rawLog EXCEPT ![p] = Len(rawLogs) + 1]
            /\ goto(p, "eventType")
  /\ UNCHANGED <<env, others, attendance, createdBy, lastSync, auditLog, data, student, window,
                 saved, syncAt, ncalls, overlapped, sweepVars>>

\* step 2: only fingerprint events go on
checkEventType(p) ==
  /\ pc[p] = "eventType"
  /\ IF data[p].event_type # "fingerprint"
       THEN /\ rawLogs' = markProcessed(rawLog[p])
            /\ settle(p, "null", "non_fingerprint")
       ELSE /\ goto(p, "findStudent")
            /\ UNCHANGED rawLogs
  /\ UNCHANGED <<env, others, attendance, createdBy, lastSync, auditLog, data, rawLog, student,
                 window, saved, syncAt, ncalls, overlapped, sweepVars>>

\* steps 3 and 4: findByBiometricId, then the status check
findStudent(p) ==
  /\ pc[p] = "findStudent"
  /\ LET found == findByBiometricId(data[p].biometric_user_id)
     IN IF found = {}
          THEN settle(p, "null", "unknown_id") /\ UNCHANGED student
          ELSE \E s \in found :
                 /\ student' = [student EXCEPT ![p] = s.student_id]
                 /\ IF s.status # "active"
                      THEN settle(p, "null", "not_active")
                      ELSE goto(p, "findWindow")
  /\ UNCHANGED <<env, others, tables, data, rawLog, window, saved, syncAt, ncalls, overlapped,
                 sweepVars>>

\* steps 5 and 6: subjects[0], else lectures[0]; then isWithinTimeWindow
findWindow(p) ==
  /\ pc[p] = "findWindow"
  /\ LET ts == data[p].timestamp
         subjects == subjectFindActiveAtTime(ts, tz)
         lectures == lectureFindActiveAtTime(ts, tz)
     IN IF subjects = {}
          THEN IF lectures = {}
                 THEN settle(p, "null", "no_window") /\ UNCHANGED <<window, rawLogs>>
                 ELSE \E l \in lectures :
                        /\ window' = [window EXCEPT ![p] =
                                        [kind |-> "lecture", id |-> l.lecture_id]]
                        /\ goto(p, "findExisting")
                        /\ UNCHANGED rawLogs
          ELSE \E s \in subjects :
                 /\ window' = [window EXCEPT ![p] =
                                 [kind |-> "subject", id |-> s.subject_id]]
                 /\ IF ~ isWithinTimeWindow(ts, tz, s)
                      THEN /\ rawLogs' = markProcessed(rawLog[p])
                           /\ settle(p, "null", "outside_window")
                      ELSE /\ goto(p, "findExisting")
                           /\ UNCHANGED rawLogs
  /\ UNCHANGED <<env, others, attendance, createdBy, lastSync, auditLog, data, rawLog, student,
                 saved, syncAt, ncalls, overlapped, sweepVars>>

\* does the row findOne returned make the scan a duplicate?
\* subject branch: only when that row is of the scan's date; lecture branch: always
isDuplicate(p, i) ==
  IF window[p].kind = "subject"
    THEN recordDate(attendance[i]) = isoDate(data[p].timestamp)
    ELSE TRUE

\* step 7: attendanceRepository.findOne({student_id, subject_id | lecture_id}).
\* The query has no ORDER BY: any matching row may be the one returned.
findExisting(p) ==
  /\ pc[p] = "findExisting"
  /\ LET rows == IF window[p].kind = "subject"
                   THEN subjectRows(student[p], window[p].id)
                   ELSE lectureRows(student[p], window[p].id)
     IN IF rows = {}
          THEN goto(p, "save") /\ UNCHANGED rawLogs
          ELSE \E i \in rows :
                 IF isDuplicate(p, i)
                   THEN /\ rawLogs' = markProcessed(rawLog[p])
                        /\ settle(p, "null", "duplicate")
                   ELSE goto(p, "save") /\ UNCHANGED rawLogs
  /\ UNCHANGED <<env, others, attendance, createdBy, lastSync, auditLog, data, rawLog, student,
                 window, saved, syncAt, ncalls, overlapped, sweepVars>>

\* the entity built without the link to the raw log
newRecordUnlinked(p) == presentRow(student[p], window[p], data[p], 0)

\* the entity attendanceRepository.create builds in either branch
newRecord(p) == presentRow(student[p], window[p], data[p], rawLog[p])

\* step 8: attendanceRepository.save.  attendance_records declares no unique
\* index: the insert always succeeds.
save(p) ==
  /\ pc[p] = "save"
  /\ attendance' = Append(attendance, newRecord(p))
  /\ createdBy' = Append(createdBy, "processScan")
  /\ saved' = [saved EXCEPT ![p] = Len(attendance) + 1]
  /\ goto(p, "markProcessed")
  /\ UNCHANGED <<env, others, rawLogs, lastSync, auditLog, data, rawLog, student, window,
                 syncAt, ncalls, overlapped, sweepVars>>

\* mark raw log as processed; the lecture branch writes no audit row
markRawLogProcessed(p) ==
  /\ pc[p] = "markProcessed"
  /\ rawLogs' = markProcessed(rawLog[p])
  /\ goto(p, IF window[p].kind = "subject" THEN "audit" ELSE "lastSync")
  /\ UNCHANGED <<env, others, attendance, createdBy, lastSync, auditLog, data, rawLog, student,
                 window, saved, syncAt, ncalls, overlapped, sweepVars>>

\* step 9: auditService.logAttendanceAction(ATTENDANCE_RECORDED, ...)
logAttendanceAction(p) ==
  /\ pc[p] = "audit"
  /\ auditLog' = Append(auditLog,
        auditRow("attendance_recorded", student[p], window[p].id))
  /\ goto(p, "lastSync")
  /\ UNCHANGED <<env, others, rawLogs, attendance, createdBy, lastSync, data, rawLog, student,
                 window, saved, syncAt, ncalls, overlapped, sweepVars>>

\* deviceService.updateLastSyncTime when data.device_id is set; return saved
updateLastSyncTime(p) ==
  /\ pc[p] = "lastSync"
  /\ IF data[p].device_id # NoValue
       THEN /\ lastSync' = [lastSync EXCEPT ![data[p].device_id] = @ + 1]
            /\ syncAt' = [syncAt EXCEPT ![p] = lastSync[data[p].device_id] + 1]
       ELSE UNCHANGED <<lastSync, syncAt>>
  /\ settle(p, "record", "recorded")
  /\ UNCHANGED <<env, others, rawLogs, attendance, createdBy, auditLog, data, rawLog, student,
                 window, saved, ncalls, overlapped, sweepVars>>

\* the caller has consumed the result; its slot is free for the next call
return(p) ==
  /\ pc[p] = "done"
  /\ pc' = [pc EXCEPT ![p] = "idle"]
  /\ data' = [data EXCEPT ![p] = NoDto]
  /\ rawLog' = [rawLog EXCEPT ![p] = 0]
  /\ student' = [student EXCEPT ![p] = NoValue]
  /\ window' = [window EXCEPT ![p] = NoWindow]
  /\ saved' = [saved EXCEPT ![p] = 0]
  /\ result' = [result EXCEPT ![p] = NoValue]
  /\ reason' = [reason EXCEPT ![p] = NoValue]
  /\ syncAt' = [syncAt EXCEPT ![p] = 0]
  /\ UNCHANGED <<env, others, tables, ncalls, overlapped, sweepVars>>

\* ------------------------------------------------ autoMarkAbsentForSubject
\* find(..., order: { name: 'ASC' }): the rows as a list ordered by name
RECURSIVE orderByName(_)
orderByName(S) ==
  IF S = {} THEN <<>>
  ELSE LET first == CHOOSE s \in S : \A t \in S : s.name <= t.name
       IN <<first>> \o orderByName(S \ {first})

\* subjectService.findById: the row, or none (AppError 404, the sweep rejects)
subjectFindById(id) == {s \in Subject : s.subject_id = id}

\* the filter taking only present rows as recorded
recordedPresentStudentIds(subj, date) ==
  {attendance[i].student_id : i \in
     {j \in DOMAIN attendance :
        /\ attendance[j].subject_id = subj
        /\ recordDate(attendance[j]) = date
        /\ attendance[j].status = "present"}}

\* student_ids of the subject's rows whose date equals the date argument
recordedStudentIds(subj, date) ==
  {attendance[i].student_id : i \in
     {j \in DOMAIN attendance :
        attendance[j].subject_id = subj /\ recordDate(attendance[j]) = date}}

\* the external trigger calls autoMarkAbsentForSubject(subjectId, date)
autoMarkAbsentForSubject(arg) ==
  /\ sweepPc = "idle"
  /\ nsweeps < MaxSweeps
  /\ nsweeps' = nsweeps + 1
  /\ sweepPc' = "load"
  /\ sweepArg' = arg
  /\ overlapped' = (overlapped \/ \E q \in Procs : running(q))
  /\ UNCHANGED <<env, others, tables, locals, ncalls, absentStudents>>

\* findById, findByAcademicStage, find existing rows, filter: one snapshot
loadAbsentStudents ==
  /\ sweepPc = "load"
  /\ LET found == subjectFindById(sweepArg.subject_id)
     IN IF found = {}
          THEN sweepPc' = "failed" /\ UNCHANGED absentStudents
          ELSE \E subject \in found :
                 LET students == findByAcademicStage(subject.academic_stage)
                     recorded == recordedStudentIds(sweepArg.subject_id, sweepArg.date)
                 IN /\ absentStudents' =
                         orderByName({s \in students : s.student_id \notin recorded})
                    /\ sweepPc' = "insert"
  /\ UNCHANGED <<env, others, tables, locals, ncalls, overlapped, sweepArg, nsweeps>>

\* the entity the loop body creates for one absent student
absentRecord(sid, subject, date, z) ==
  [student_id |-> sid,
   subject_id |-> subject.subject_id,
   lecture_id |-> NoValue,
   attendance_date |-> date,
   scan_timestamp |-> setHours(date * DaySeconds, z,
                               splitHour(subject.start_time),
                               splitMinute(subject.start_time)),
   device_id |-> NoValue,
   status |-> "absent",
   source |-> "system_auto",
   raw_log_id |-> 0]

\* one iteration of the loop: save the absent record, then its audit row
insertAbsentRecord ==
  /\ sweepPc = "insert"
  /\ absentStudents # <<>>
  /\ \E subject \in subjectFindById(sweepArg.subject_id) :
       attendance' = Append(attendance,
          absentRecord(Head(absentStudents).student_id, subject, sweepArg.date, tz))
  /\ createdBy' = Append(createdBy, "autoMarkAbsent")
  /\ auditLog' = Append(auditLog,
        auditRow("attendance_mark_absent", Head(absentStudents).student_id,
                 sweepArg.subject_id))
  /\ absentStudents' = Tail(absentStudents)
  /\ UNCHANGED <<env, others, rawLogs, lastSync, locals, ncalls, overlapped, sweepPc, sweepArg,
                 nsweeps>>

\* the loop is over: return { marked_absent }
sweepReturn ==
  /\ sweepPc = "insert"
  /\ absentStudents = <<>>
  /\ sweepPc' = "done"
  /\ UNCHANGED <<env, others, tables, locals, ncalls, overlapped, sweepArg, absentStudents, nsweeps>>

\* the run stops part-way through its inserts: the save of the next record is
\* refused (or the process ends) and, with no try/catch in the loop, the
\* promise rejects with the rows inserted so far left in place
sweepAbort ==
  /\ sweepPc = "insert"
  /\ absentStudents # <<>>
  /\ sweepPc' = "failed"
  /\ absentStudents' = <<>>
  /\ UNCHANGED <<env, others, tables, locals, ncalls, overlapped, sweepArg, nsweeps>>

\* the trigger has consumed the result
sweepIdle ==
  /\ sweepPc \in {"done", "failed"}
  /\ sweepPc' = "idle"
  /\ sweepArg' = NoSweep
  /\ UNCHANGED <<env, others, tables, locals, ncalls, overlapped, absentStudents, nsweeps>>

\* ------------------------------------------------------- processBatchScans
\* the arrays a producer may pass: one to MaxBatch scans of the workload
Batches(w, z) ==
  UNION {[1..n -> {ScanDto(r, z) : r \in w.scans}] : n \in 1..MaxBatch}

\* a producer calls processBatchScans(scans); its calls run in caller slot p
processBatchScans(p) ==
  /\ batchPc = "idle"
  /\ pc[p] = "idle"
  /\ nbatches < MaxBatches
  /\ nbatches' = nbatches + 1
  /\ batchPc' = "for"
  /\ batchCaller' = p
  /\ \E scans \in Batches(workload, tz) : batchScans' = scans
  /\ batchResults' = <<>>
  /\ UNCHANGED <<env, deviceSide, standalone, tables, locals, ncalls, overlapped, sweepVars>>

\* for (const scan of scans): await this.processFingerprintScan(scan)
batchCall ==
  /\ batchPc = "for"
  /\ Len(batchResults) < Len(batchScans)
  /\ pc[batchCaller] = "idle"
  /\ pc' = [pc EXCEPT ![batchCaller] = "storeRawLog"]
  /\ data' = [data EXCEPT ![batchCaller] = batchScans[Len(batchResults) + 1]]
  /\ ncalls' = ncalls + 1
  /\ overlapped' =
       (overlapped \/ sweepRunning \/ \E q \in Procs \ {batchCaller} : running(q))
  /\ batchPc' = "await"
  /\ UNCHANGED <<env, deviceSide, standalone, tables, rawLog, student, window, saved, outcome, syncAt, sweepVars,
                 batchCaller, batchScans, batchResults, nbatches>>

\* the entry pushed for the call that has settled in slot p: { success: true,
\* data: result } from the try, { success: false, error, scan } from the catch
\* (scan is kept in both shapes, as the scan the call was made with)
batchEntry(p) ==
  [success |-> result[p] # "error", data |-> saved[p], scan |-> data[p]]

\* the call's slot, free again for the next item
freed(p) ==
  /\ pc' = [pc EXCEPT ![p] = "idle"]
  /\ data' = [data EXCEPT ![p] = NoDto]
  /\ rawLog' = [rawLog EXCEPT ![p] = 0]
  /\ student' = [student EXCEPT ![p] = NoValue]
  /\ window' = [window EXCEPT ![p] = NoWindow]
  /\ saved' = [saved EXCEPT ![p] = 0]
  /\ result' = [result EXCEPT ![p] = NoValue]
  /\ reason' = [reason EXCEPT ![p] = NoValue]
  /\ syncAt' = [syncAt EXCEPT ![p] = 0]

\* the loop ending at the first item whose call rejected
batchPushOrStop ==
  /\ batchPc = "await"
  /\ pc[batchCaller] = "done"
  /\ batchResults' = Append(batchResults, batchEntry(batchCaller))
  /\ freed(batchCaller)
  /\ batchPc' = IF result[batchCaller] = "error" THEN "done" ELSE "for"
  /\ UNCHANGED <<env, deviceSide, standalone, tables, ncalls, overlapped, sweepVars, batchCaller, batchScans,
                 nbatches>>

\* the awaited call has settled: results.push(...) in the try or in the catch,
\* then the next iteration
batchPush ==
  /\ batchPc = "await"
  /\ pc[batchCaller] = "done"
  /\ batchResults' = Append(batchResults, batchEntry(batchCaller))
  /\ freed(batchCaller)
  /\ batchPc' = "for"
  /\ UNCHANGED <<env, deviceSide, standalone, tables, ncalls, overlapped, sweepVars, batchCaller, batchScans,
                 nbatches>>

\* the loop is over: return results
batchReturn ==
  /\ batchPc = "for"
  /\ Len(batchResults) = Len(batchScans)
  /\ batchPc' = "done"
  /\ UNCHANGED <<env, deviceSide, standalone, tables, locals, ncalls, overlapped, sweepVars, batchCaller,
                 batchScans, batchResults, nbatches>>

\* the producer has consumed the results
batchIdle ==
  /\ batchPc = "done"
  /\ batchPc' = "idle"
  /\ batchCaller' = 0
  /\ batchScans' = <<>>
  /\ batchResults' = <<>>
  /\ UNCHANGED <<env, deviceSide, standalone, tables, locals, ncalls, overlapped, sweepVars, nbatches>>

\* command and reply codes of the terminal protocol
CMD_CONNECT == 1000
CMD_EXIT == 1001
CMD_ATTLOG_RRQ == 13
CMD_GET_TIME == 201
CMD_ACK_OK == 2000
CMD_ACK_ERROR == 2001

\* =========================================================== device side
\* The TCP client of a terminal (TcpDeviceClient) and the scheduler that
\* drives one client per sync step (DeviceSyncScheduler).  Time is not
\* measured: a timer is an event that may occur while its promise is pending
\* (once the promise has settled, the timer's callback changes nothing).
\* An uncaught exception ends the Node process: crashed, and nothing runs.

\* ----------------------------------------------------------- TcpDeviceClient
\* createPacket: command, session id and reply id of the header
createPacket(cl, command) ==
  [command |-> command, sessionId |-> cl.sessionId, replyId |-> cl.replyId]

\* sendCommand: nothing without a socket, else write the packet (replyId++)
sendCommand(cl, command) ==
  IF cl.socket = "null" THEN cl
  ELSE [cl EXCEPT !.sent = Append(@, createPacket(cl, command)), !.replyId = @ + 1]

\* connect(): a new socket, the once('connected') listener, the pending promise
connect(cl) ==
  [cl EXCEPT !.socket = "connecting", !.connectP = "pending", !.onConnected = @ + 1,
             !.called = "connect"]

\* the socket's connect callback: sendCommand(CMD_CONNECT)
onSocketConnect(cl) == sendCommand([cl EXCEPT !.socket = "open"], CMD_CONNECT)

\* no uncaught exception has ended the process
alive == crashed = NoClient

\* emit('error') finds no listener: EventEmitter throws the error
uncaught(cl) == cl.onError = 0

\* emit('error') with listeners: the once('error') listeners of the pending
\* requests reject them and are removed
emitError(cl) ==
  [cl EXCEPT !.fetchP = IF @ = "pending" THEN "rejected" ELSE @, !.onError = 0]

\* handleData for one 8-byte frame
handleData(cl, f) ==
  IF f.command = CMD_ACK_OK
    THEN IF cl.onConnected > 0
           THEN [cl EXCEPT !.sessionId = f.sessionId,
                           !.connected = TRUE,
                           !.connectP = IF @ = "pending" THEN "resolved" ELSE @,
                           !.onConnected = 0,
                           !.ackSession = f.sessionId]
           ELSE [cl EXCEPT !.sessionId = f.sessionId]
    ELSE IF f.command = CMD_ACK_ERROR THEN emitError(cl) ELSE cl

\* the socket's 'error' listener, then its 'close' listener
onSocketError(cl) ==
  LET a == [cl EXCEPT !.socket = "closed", !.connected = FALSE]
  IN IF uncaught(cl) THEN a
     ELSE [emitError(a) EXCEPT !.connectP = IF @ = "pending" THEN "error" ELSE @]

\* the socket's 'close' listener
onSocketClose(cl) == [cl EXCEPT !.socket = "closed", !.connected = FALSE]

\* a timer callback that does nothing
onConnectTimeoutIdle(cl) == cl

\* the 10 s timer of connect()
onConnectTimeout(cl) ==
  IF ~ cl.connected
    THEN [cl EXCEPT !.connectP = IF @ = "pending" THEN "timeout" ELSE @]
    ELSE cl

\* disconnect()
disconnect(cl) ==
  IF cl.socket # "null" /\ cl.connected
    THEN [sendCommand(cl, CMD_EXIT) EXCEPT !.socket = "null", !.connected = FALSE,
                                           !.called = "disconnect"]
    ELSE [cl EXCEPT !.called = "disconnect"]

\* getAttendanceLogs(): rejects at once when not connected; else the
\* once('error') listener, the request packet, the pending promise.  Nothing
\* in the client emits 'attendance_logs': the promise resolves, with the
\* empty array, only by its 30 s timer.
getAttendanceLogs(cl) ==
  IF ~ cl.connected
    THEN [cl EXCEPT !.fetchP = "rejected", !.called = "getAttendanceLogs"]
    ELSE sendCommand([cl EXCEPT !.fetchP = "pending", !.onError = @ + 1,
                                !.called = "getAttendanceLogs"], CMD_ATTLOG_RRQ)

\* the 30 s timer of getAttendanceLogs(): resolve(logs), logs = []
onFetchTimeout(cl) == [cl EXCEPT !.fetchP = IF @ = "pending" THEN "resolved" ELSE @]

\* getDeviceTime(): rejects at once when not connected; else the request
\* packet and the pending promise, with no 'error' listener.  Nothing in the
\* client emits 'device_time': the promise is settled only by its 10 s timer.
getDeviceTime(cl) ==
  IF ~ cl.connected
    THEN [cl EXCEPT !.timeP = "rejected", !.called = "getDeviceTime"]
    ELSE sendCommand([cl EXCEPT !.timeP = "pending", !.called = "getDeviceTime"],
                     CMD_GET_TIME)

\* the 10 s timer of getDeviceTime(): reject(new Error('Timeout getting device time'))
onTimeTimeout(cl) == [cl EXCEPT !.timeP = IF @ = "pending" THEN "timeout" ELSE @]

\* ------------------------------------------------ the terminal and the network
\* the TCP connection is established; the terminal gives it session id n
tcpEstablished(c, n) ==
  /\ alive
  /\ client[c].socket = "connecting"
  /\ client' = [client EXCEPT ![c] = [onSocketConnect(@) EXCEPT !.peerSession = n]]
  /\ UNCHANGED <<env, tables, matching, step, cycle, trigger, crashed, ncycles, ntriggers>>

\* the connection is refused, reset or times out in the network stack
socketError(c) ==
  /\ alive
  /\ client[c].socket \in {"connecting", "open"}
  /\ client' = [client EXCEPT ![c] = onSocketError(@)]
  /\ crashed' = IF uncaught(client[c]) THEN c ELSE crashed
  /\ UNCHANGED <<env, tables, matching, step, cycle, trigger, ncycles, ntriggers>>

\* the terminal closes the connection
socketClose(c) ==
  /\ alive
  /\ client[c].socket = "open"
  /\ client' = [client EXCEPT ![c] = onSocketClose(@)]
  /\ UNCHANGED <<env, tables, matching, step, cycle, trigger, crashed, ncycles, ntriggers>>

\* an 8-byte frame arrives from the terminal, an ACK_OK with the session id
\* of the connection
frame(c, f) ==
  /\ alive
  /\ client[c].socket = "open"
  /\ f.command = CMD_ACK_OK => f.sessionId = client[c].peerSession
  /\ client' = [client EXCEPT ![c] = handleData(@, f)]
  /\ crashed' = IF f.command = CMD_ACK_ERROR /\ uncaught(client[c]) THEN c ELSE crashed
  /\ UNCHANGED <<env, tables, matching, step, cycle, trigger, ncycles, ntriggers>>

\* the timer of a pending connect() fires
connectTimeout(c) ==
  /\ alive
  /\ client[c].connectP = "pending"
  /\ client' = [client EXCEPT ![c] = onConnectTimeout(@)]
  /\ UNCHANGED <<env, tables, matching, step, cycle, trigger, crashed, ncycles, ntriggers>>

\* the timer of a pending getAttendanceLogs() fires
fetchTimeout(c) ==
  /\ alive
  /\ client[c].fetchP = "pending"
  /\ client' = [client EXCEPT ![c] = onFetchTimeout(@)]
  /\ UNCHANGED <<env, tables, matching, step, cycle, trigger, crashed, ncycles, ntriggers>>

\* ------------------------------------------------------- a user of one client
\* a caller holding the client calls connect(), once no transport of it is
\* alive and no connect() is pending
callConnect ==
  /\ alive
  /\ client[TheClient].socket \in {"null", "closed"}
  /\ client[TheClient].connectP # "pending"
  /\ Len(client[TheClient].sent) < MaxPackets
  /\ client' = [client EXCEPT ![TheClient] = connect(@)]
  /\ UNCHANGED <<env, tables, matching, step, cycle, trigger, crashed, ncycles, ntriggers>>

\* it calls disconnect(), in whatever state the client is
callDisconnect ==
  /\ alive
  /\ client' = [client EXCEPT ![TheClient] = disconnect(@)]
  /\ UNCHANGED <<env, tables, matching, step, cycle, trigger, crashed, ncycles, ntriggers>>

\* it calls getAttendanceLogs(), one request at a time
callGetAttendanceLogs ==
  /\ alive
  /\ client[TheClient].fetchP # "pending"
  /\ Len(client[TheClient].sent) < MaxPackets
  /\ client' = [client EXCEPT ![TheClient] = getAttendanceLogs(@)]
  /\ UNCHANGED <<env, tables, matching, step, cycle, trigger, crashed, ncycles, ntriggers>>

\* it calls getDeviceTime(), one request at a time
callGetDeviceTime ==
  /\ alive
  /\ client[TheClient].timeP # "pending"
  /\ Len(client[TheClient].sent) < MaxPackets
  /\ client' = [client EXCEPT ![TheClient] = getDeviceTime(@)]
  /\ UNCHANGED <<env, tables, matching, step, cycle, trigger, crashed, ncycles, ntriggers>>

\* the timer of its pending getDeviceTime() fires
timeTimeout ==
  /\ alive
  /\ client[TheClient].timeP = "pending"
  /\ client' = [client EXCEPT ![TheClient] = onTimeTimeout(@)]
  /\ UNCHANGED <<env, tables, matching, step, cycle, trigger, crashed, ncycles, ntriggers>>

\* ------------------------------------------------- DeviceSyncScheduler.syncDevice
deviceRow(id) == CHOOSE d \in DeviceRow : d.device_id = id

\* syncDevice up to its first await: createTcpClient, client.connect()
startSync(c) ==
  /\ client' = [client EXCEPT ![c] = connect(NewClient)]
  /\ step' = [step EXCEPT ![c] = "connect"]

\* the same, stamping the device as synchronized as soon as it is connected
stepConnectedStamping(c) ==
  /\ alive
  /\ step[c] = "connect"
  /\ client[c].connectP = "resolved"
  /\ client' = [client EXCEPT ![c] = getAttendanceLogs(@)]
  /\ step' = [step EXCEPT ![c] = "fetch"]
  /\ lastSync' = [lastSync EXCEPT ![c[3]] = @ + 1]
  /\ UNCHANGED <<env, rawLogs, attendance, createdBy, auditLog, matching, cycle, trigger,
                 crashed, ncycles, ntriggers>>

\* await client.connect() resolved: client.getAttendanceLogs()
stepConnected(c) ==
  /\ alive
  /\ step[c] = "connect"
  /\ client[c].connectP = "resolved"
  /\ client' = [client EXCEPT ![c] = getAttendanceLogs(@)]
  /\ step' = [step EXCEPT ![c] = "fetch"]
  /\ UNCHANGED <<env, tables, matching, cycle, trigger, crashed, ncycles, ntriggers>>

\* the catch block leaving the client as it is
stepCatchBare(c) ==
  /\ alive
  /\ \/ step[c] = "connect" /\ client[c].connectP \in {"timeout", "error"}
     \/ step[c] = "fetch" /\ client[c].fetchP = "rejected"
  /\ step' = [step EXCEPT ![c] = "returned"]
  /\ UNCHANGED <<env, tables, matching, client, cycle, trigger, crashed, ncycles, ntriggers>>

\* connect() or getAttendanceLogs() rejected: the catch block, client.disconnect()
stepCatch(c) ==
  /\ alive
  /\ \/ step[c] = "connect" /\ client[c].connectP \in {"timeout", "error"}
     \/ step[c] = "fetch" /\ client[c].fetchP = "rejected"
  /\ client' = [client EXCEPT ![c] = disconnect(@)]
  /\ step' = [step EXCEPT ![c] = "returned"]
  /\ UNCHANGED <<env, tables, matching, cycle, trigger, crashed, ncycles, ntriggers>>

\* getAttendanceLogs() resolved: logs is [], the loop over it has no turn,
\* deviceService.updateLastSyncTime is called
stepFetched(c) ==
  /\ alive
  /\ step[c] = "fetch"
  /\ client[c].fetchP = "resolved"
  /\ step' = [step EXCEPT ![c] = "update"]
  /\ UNCHANGED <<env, tables, matching, client, cycle, trigger, crashed, ncycles, ntriggers>>

\* updateLastSyncTime resolved: client.disconnect(), return
stepUpdated(c) ==
  /\ alive
  /\ step[c] = "update"
  /\ lastSync' = [lastSync EXCEPT ![c[3]] = @ + 1]
  /\ client' = [client EXCEPT ![c] = disconnect(@)]
  /\ step' = [step EXCEPT ![c] = "returned"]
  /\ UNCHANGED <<env, rawLogs, attendance, createdBy, auditLog, matching, cycle, trigger,
                 crashed, ncycles, ntriggers>>

\* updateLastSyncTime rejected (the database refuses the update): the catch
\* block, client.disconnect()
stepUpdateFailed(c) ==
  /\ alive
  /\ step[c] = "update"
  /\ client' = [client EXCEPT ![c] = disconnect(@)]
  /\ step' = [step EXCEPT ![c] = "returned"]
  /\ UNCHANGED <<env, tables, matching, cycle, trigger, crashed, ncycles, ntriggers>>

\* -------------------------------------------- DeviceSyncScheduler.syncAllDevices
\* the lists deviceRepository.find({ is_active: true }) may return: the active
\* rows in any order
RECURSIVE Orderings(_)
Orderings(S) ==
  IF S = {} THEN {<<>>}
  ELSE UNION {{<<d>> \o rest : rest \in Orderings(S \ {d})} : d \in S}

activeDevices == {d.device_id : d \in {r \in DeviceRow : r.is_active}}

\* a timer tick (or the warm-up run) calls syncAllDevices()
syncAllDevices ==
  /\ alive
  /\ ncycles < MaxCycles
  /\ ncycles' = ncycles + 1
  /\ cycle' = [cycle EXCEPT ![ncycles + 1] = [pc |-> "find", devices |-> <<>>]]
  /\ UNCHANGED <<env, tables, matching, client, step, trigger, crashed, ntriggers>>

\* await deviceRepository.find resolved
cycleFound(k) ==
  /\ alive
  /\ cycle[k].pc = "find"
  /\ \E devices \in Orderings(activeDevices) :
       cycle' = [cycle EXCEPT ![k] = [pc |-> "for", devices |-> devices]]
  /\ UNCHANGED <<env, tables, matching, client, step, trigger, crashed, ncycles, ntriggers>>

\* await deviceRepository.find rejected: the outer catch, the cycle returns
cycleFindFailed(k) ==
  /\ alive
  /\ cycle[k].pc = "find"
  /\ cycle' = [cycle EXCEPT ![k] = [pc |-> "done", devices |-> <<>>]]
  /\ UNCHANGED <<env, tables, matching, client, step, trigger, crashed, ncycles, ntriggers>>

\* the loop going on to the next device without awaiting syncDevice
cycleSyncNoAwait(k) ==
  /\ alive
  /\ cycle[k].pc = "for"
  /\ cycle[k].devices # <<>>
  /\ LET d == Head(cycle[k].devices)
     IN /\ cycle' = [cycle EXCEPT ![k].devices = Tail(@)]
        /\ IF deviceRow(d).ip_address = NoValue
             THEN UNCHANGED <<client, step>>
             ELSE startSync(<<"cycle", k, d>>)
  /\ UNCHANGED <<env, tables, matching, trigger, crashed, ncycles, ntriggers>>

\* for (const device of devices): await this.syncDevice(device).  A device
\* without ip_address is skipped inside syncDevice, which returns at once.
cycleSync(k) ==
  /\ alive
  /\ cycle[k].pc = "for"
  /\ cycle[k].devices # <<>>
  /\ LET d == Head(cycle[k].devices)
     IN IF deviceRow(d).ip_address = NoValue
          THEN /\ cycle' = [cycle EXCEPT ![k].devices = Tail(@)]
               /\ UNCHANGED <<client, step>>
          ELSE /\ cycle' = [cycle EXCEPT ![k].pc = "await"]
               /\ startSync(<<"cycle", k, d>>)
  /\ UNCHANGED <<env, tables, matching, trigger, crashed, ncycles, ntriggers>>

\* the awaited syncDevice has returned: the next turn of the loop
cycleResume(k) ==
  /\ alive
  /\ cycle[k].pc = "await"
  /\ step[<<"cycle", k, Head(cycle[k].devices)>>] = "returned"
  /\ cycle' = [cycle EXCEPT ![k] = [pc |-> "for", devices |-> Tail(@.devices)]]
  /\ UNCHANGED <<env, tables, matching, client, step, trigger, crashed, ncycles, ntriggers>>

\* the loop is over: 'Device sync completed'
cycleDone(k) ==
  /\ alive
  /\ cycle[k].pc = "for"
  /\ cycle[k].devices = <<>>
  /\ cycle' = [cycle EXCEPT ![k].pc = "done"]
  /\ UNCHANGED <<env, tables, matching, client, step, trigger, crashed, ncycles, ntriggers>>

\* ------------------------------------------- DeviceSyncScheduler.start and stop
\* new DeviceSyncScheduler(syncIntervalSeconds)
newScheduler(syncIntervalSeconds) ==
  /\ sched.syncInterval = 0
  /\ sched' = [sched EXCEPT !.syncInterval = syncIntervalSeconds]
  /\ UNCHANGED <<env, tables, locals, ncalls, overlapped, sweepVars, batchVars, standalone,
                 client, step, cycle, trigger, crashed, ncycles, ntriggers>>

\* start()
start ==
  /\ alive
  /\ sched.syncInterval # 0
  /\ sched.nstarts < MaxStarts
  /\ sched' =
       IF sched.isRunning THEN sched
       ELSE IF sched.syncInterval < 60
         THEN [sched EXCEPT !.nstarts = @ + 1, !.intervals = @ + 1,
                            !.isRunning = TRUE, !.warmups = @ + 1]
         ELSE [sched EXCEPT !.nstarts = @ + 1, !.cronJob = "task", !.jobs = @ + 1,
                            !.isRunning = TRUE, !.warmups = @ + 1]
  /\ UNCHANGED <<env, tables, locals, ncalls, overlapped, sweepVars, batchVars, standalone,
                 client, step, cycle, trigger, crashed, ncycles, ntriggers>>

\* stop()
stop ==
  /\ alive
  /\ sched.syncInterval # 0
  /\ sched' =
       IF sched.cronJob # "null"
         THEN [sched EXCEPT !.jobs = @ - 1, !.cronJob = "null", !.isRunning = FALSE]
         ELSE [sched EXCEPT !.isRunning = FALSE]
  /\ UNCHANGED <<env, tables, locals, ncalls, overlapped, sweepVars, batchVars, standalone,
                 client, step, cycle, trigger, crashed, ncycles, ntriggers>>

\* a timer callback calls this.syncAllDevices(), not awaiting it
callSyncAllDevices ==
  /\ ncycles < MaxRuns
  /\ ncycles' = ncycles + 1
  /\ cycle' = [cycle EXCEPT ![ncycles + 1] = [pc |-> "find", devices |-> <<>>]]

\* the callback of one setInterval timer of startIntervalSync
intervalTick ==
  /\ alive
  /\ sched.intervals > 0
  /\ IF ~sched.isRunning
       THEN /\ sched' = [sched EXCEPT !.intervals = @ - 1]
            /\ UNCHANGED <<cycle, ncycles>>
       ELSE /\ callSyncAllDevices
            /\ UNCHANGED sched
  /\ UNCHANGED <<env, tables, locals, ncalls, overlapped, sweepVars, batchVars, standalone,
                 client, step, trigger, crashed, ntriggers>>

\* the callback of the cron task
cronTick ==
  /\ alive
  /\ sched.jobs > 0
  /\ callSyncAllDevices
  /\ UNCHANGED <<env, tables, locals, ncalls, overlapped, sweepVars, batchVars, standalone,
                 client, step, trigger, crashed, ntriggers, sched>>

\* the callback of the setTimeout of start(): the initial sync
warmUp ==
  /\ alive
  /\ sched.warmups > 0
  /\ callSyncAllDevices
  /\ sched' = [sched EXCEPT !.warmups = @ - 1]
  /\ UNCHANGED <<env, tables, locals, ncalls, overlapped, sweepVars, batchVars, standalone,
                 client, step, trigger, crashed, ntriggers>>

\* ----------------------------------------------- DeviceSyncScheduler.triggerSync
\* the ids a caller may pass: a reachable device, one without address, none
TriggerIds == {"d1", "d3", "d9"}

\* a caller calls triggerSync(deviceId)
triggerSync(id) ==
  /\ alive
  /\ ntriggers < MaxTriggers
  /\ ntriggers' = ntriggers + 1
  /\ trigger' = [trigger EXCEPT ![ntriggers + 1] =
                   [pc |-> "find", deviceId |-> id, result |-> NoResult]]
  /\ UNCHANGED <<env, tables, matching, client, step, cycle, crashed, ncycles>>

\* await deviceService.findById settled: AppError('Device not found') goes to
\* the catch; a device without ip_address is skipped by syncDevice; else the
\* sync step starts
trigFound(t) ==
  /\ alive
  /\ trigger[t].pc = "find"
  /\ LET id == trigger[t].deviceId
     IN IF id \notin Device
          THEN /\ trigger' = [trigger EXCEPT ![t].pc = "returned",
                                 ![t].result = [success |-> FALSE,
                                                message |-> "Device not found"]]
               /\ UNCHANGED <<client, step>>
          ELSE IF deviceRow(id).ip_address = NoValue
                 THEN /\ trigger' = [trigger EXCEPT ![t].pc = "returned",
                                        ![t].result = [success |-> TRUE,
                                                       message |-> "Device synced successfully"]]
                      /\ UNCHANGED <<client, step>>
                 ELSE /\ trigger' = [trigger EXCEPT ![t].pc = "await"]
                      /\ startSync(<<"trigger", t, id>>)
  /\ UNCHANGED <<env, tables, matching, cycle, crashed, ncycles, ntriggers>>

\* the awaited syncDevice has returned: { success: true, ... }
trigResume(t) ==
  /\ alive
  /\ trigger[t].pc = "await"
  /\ step[<<"trigger", t, trigger[t].deviceId>>] = "returned"
  /\ trigger' = [trigger EXCEPT ![t].pc = "returned",
                    ![t].result = [success |-> TRUE,
                                   message |-> "Device synced successfully"]]
  /\ UNCHANGED <<env, tables, matching, client, step, cycle, crashed, ncycles, ntriggers>>

\* ------------------------------------------------- TcpDeviceClient.createPacket
\* The packet as the bytes written, for a client instance whose sessionId and
\* replyId fields stand at given values.
UInt16 == 2 ^ 16

\* the bitwise operators of JavaScript on non-negative numbers below 2^31
RECURSIVE bitXor(_, _)
bitXor(a, b) ==
  IF a = 0 /\ b = 0 THEN 0
  ELSE (((a % 2) + (b % 2)) % 2) + 2 * bitXor(a \div 2, b \div 2)

RECURSIVE bitAnd(_, _)
bitAnd(a, b) ==
  IF a = 0 \/ b = 0 THEN 0
  ELSE ((a % 2) * (b % 2)) + 2 * bitAnd(a \div 2, b \div 2)

\* Buffer.alloc(n)
alloc(n) == [i \in 1..n |-> 0]

\* buf.writeUInt16LE(v, off), for v in range; buf.readUInt16LE(off)
writeUInt16LE(buf, v, off) ==
  [buf EXCEPT ![off + 1] = v % 256, ![off + 2] = v \div 256]
readUInt16LE(buf, off) == buf[off + 1] + 256 * buf[off + 2]

\* data.copy(header, 8)
copy(payload, header) ==
  [i \in 1..Len(header) |-> IF i > 8 /\ i - 8 <= Len(payload) THEN payload[i - 8] ELSE header[i]]

\* the loop of calculateChecksum from index i on
RECURSIVE sumFrom(_, _)
sumFrom(payload, i) ==
  IF i >= Len(payload) THEN 0
  ELSE (IF i + 1 < Len(payload) THEN readUInt16LE(payload, i) ELSE payload[i + 1])
         + sumFrom(payload, i + 2)

\* the checksum with the odd trailing byte left out
calculateChecksumEven(payload) ==
  bitAnd(bitXor(sumFrom(SubSeq(payload, 1, 2 * (Len(payload) \div 2)), 0), UInt16 - 1) + 1,
         UInt16 - 1)

\* calculateChecksum: sum = (sum ^ 0xFFFF) + 1; return sum & 0xFFFF
calculateChecksum(payload) ==
  bitAnd(bitXor(sumFrom(payload, 0), UInt16 - 1) + 1, UInt16 - 1)

\* createPacket writing this.replyId without the ++
createPacketSameId(c, command, payload) ==
  IF c.replyId >= UInt16
    THEN [c EXCEPT !.arg = [command |-> command, data |-> payload],
                   !.used = c.replyId, !.count = @ + 1, !.threw = TRUE]
    ELSE LET h1 == writeUInt16LE(alloc(8 + Len(payload)), command, 0)
             h2 == writeUInt16LE(h1, 0, 2)
             h3 == writeUInt16LE(h2, c.sessionId, 4)
             h4 == writeUInt16LE(h3, c.replyId, 6)
             h5 == IF Len(payload) > 0 THEN copy(payload, h4) ELSE h4
         IN [c EXCEPT !.packet = writeUInt16LE(h5, calculateChecksum(h5), 2),
                      !.arg = [command |-> command, data |-> payload],
                      !.used = c.replyId, !.count = @ + 1, !.threw = FALSE]

\* createPacket(command, data) on the instance c.  writeUInt16LE throws a
\* RangeError for a value above 0xFFFF: this.replyId++ has then been done and
\* no packet is returned.  used is the value of replyId the call read.
createPacketBytes(c, command, payload) ==
  IF c.replyId >= UInt16
    THEN [c EXCEPT !.replyId = @ + 1,
                   !.arg = [command |-> command, data |-> payload],
                   !.used = c.replyId, !.count = @ + 1, !.threw = TRUE]
    ELSE LET h1 == writeUInt16LE(alloc(8 + Len(payload)), command, 0)
             h2 == writeUInt16LE(h1, 0, 2)
             h3 == writeUInt16LE(h2, c.sessionId, 4)
             h4 == writeUInt16LE(h3, c.replyId, 6)
             h5 == IF Len(payload) > 0 THEN copy(payload, h4) ELSE h4
         IN [c EXCEPT !.replyId = @ + 1,
                      !.packet = writeUInt16LE(h5, calculateChecksum(h5), 2),
                      !.arg = [command |-> command, data |-> payload],
                      !.used = c.replyId, !.count = @ + 1, !.threw = FALSE]

\* the commands, session ids and payloads a call is made with, and the
\* instances it is made on: a new one, and one that has written 65534 packets
CodecStarts ==
  {[NewCodec EXCEPT !.sessionId = n, !.replyId = r] :
     n \in {0, 1, UInt16 - 1}, r \in {0, UInt16 - 2}}

\* one call of createPacket
encode ==
  /\ codec.count < MaxEncodes
  /\ \E command \in {CMD_CONNECT, CMD_ATTLOG_RRQ, UInt16 - 1} :
     \E payload \in UNION {[1..n -> {0, 1, 255}] : n \in 0..MaxPayload} :
       codec' = createPacketBytes(codec, command, payload)
  /\ UNCHANGED <<online, serial, usb>>

\* --------------------------------------------------------------- serial client
CR == 13

\* Buffer.indexOf: the 0-based index of the first byte equal to b, -1 if none
indexOf(buf, b) ==
  IF \E i \in 1..Len(buf) : buf[i] = b
    THEN (CHOOSE i \in 1..Len(buf) :
            buf[i] = b /\ \A j \in 1..(i - 1) : buf[j] # b) - 1
    ELSE 0 - 1

\* emit('response', message): every once-listener is removed and run; the
\* listener of a call that is still waiting clears its timer and resolves it
emitResponse(s, message) ==
  [s EXCEPT
     !.responses = @ \o <<message>>,
     !.calls = [i \in 1..Len(@) |->
                  IF ~@[i].listening THEN @[i]
                  ELSE IF @[i].state = "waiting"
                    THEN [@[i] EXCEPT !.listening = FALSE, !.state = "resolved",
                                      !.value = message]
                    ELSE [@[i] EXCEPT !.listening = FALSE]]]

\* handleData(data)
serialHandleData(s, chunk) ==
  LET buf == s.buffer \o chunk
      crIndex == indexOf(buf, CR)
  IN  IF crIndex # 0 - 1
        THEN emitResponse([s EXCEPT !.buffer = SubSeq(buf, crIndex + 2, Len(buf))],
                          SubSeq(buf, 1, crIndex))
        ELSE [s EXCEPT !.buffer = buf]

\* a sendCommand call: state is where its promise stands, value what it
\* resolved with, error what it rejected with, listening whether its
\* once('response') listener is registered, wrote whether port.write was
\* called for it, after the number of CR bytes received when its write ended
NewCall ==
  [state |-> "writing", value |-> <<>>, error |-> "", listening |-> FALSE,
   wrote |-> FALSE, after |-> 0]

\* sendCommand(command), up to the call of port.write
serialSendCommand(s, command) ==
  IF s.port = "null" \/ ~s.connected
    THEN [s EXCEPT !.calls = @ \o <<[NewCall EXCEPT
                      !.state = "rejected",
                      !.error = "Not connected to serial port"]>>]
    ELSE [s EXCEPT !.written = @ \o <<<<command, CR>>>>,
                   !.calls = @ \o <<[NewCall EXCEPT !.wrote = TRUE]>>]

\* the callback of port.open in connect(), with or without an error
serialOpen(ok) ==
  /\ serial.port = "null"
  /\ serial' = [serial EXCEPT !.port = "port", !.connected = ok]
  /\ UNCHANGED <<online, codec, usb>>

\* disconnect() and the callback of port.close
serialDisconnect ==
  /\ serial.port # "null" /\ serial.connected
  /\ serial' = [serial EXCEPT !.port = "null", !.connected = FALSE]
  /\ UNCHANGED <<online, codec, usb>>

\* the open port hands a chunk of bytes to its 'data' handler
serialData(chunk) ==
  /\ serial.port # "null" /\ serial.connected
  /\ Len(serial.received) + Len(chunk) <= MaxStream
  /\ serial' = [serialHandleData(serial, chunk) EXCEPT !.received = @ \o chunk]
  /\ UNCHANGED <<online, codec, usb>>

callSendCommand(command) ==
  /\ Len(serial.calls) < MaxRequests
  /\ serial' = serialSendCommand(serial, command)
  /\ UNCHANGED <<online, codec, usb>>

\* the callback of port.write for call i, with or without an error
serialWritten(i, ok) ==
  /\ i \in 1..Len(serial.calls)
  /\ serial.calls[i].state = "writing"
  /\ serial' =
       [serial EXCEPT !.calls[i] =
          IF ok
            THEN [@ EXCEPT !.state = "waiting", !.listening = TRUE,
                           !.after = Cardinality({k \in 1..Len(serial.received) :
                                                    serial.received[k] = CR})]
            ELSE [@ EXCEPT !.state = "rejected", !.error = "write error"]]
  /\ UNCHANGED <<online, codec, usb>>

\* the 5 s timer of call i fires
serialTimeout(i) ==
  /\ i \in 1..Len(serial.calls)
  /\ serial.calls[i].state = "waiting"
  /\ serial' = [serial EXCEPT !.calls[i] =
                  [@ EXCEPT !.state = "rejected", !.error = "Command timeout"]]
  /\ UNCHANGED <<online, codec, usb>>

\* ------------------------------------------------------------------ USB import
recordSize == 40

\* String.prototype.trim on a string given as its character codes
RECURSIVE trim(_)
trim(str) ==
  LET WhiteSpace == {9, 10, 11, 12, 13, 32}
  IN  IF str # <<>> /\ Head(str) \in WhiteSpace THEN trim(Tail(str))
      ELSE IF str # <<>> /\ str[Len(str)] \in WhiteSpace
        THEN trim(SubSeq(str, 1, Len(str) - 1))
        ELSE str

\* the identifiers the engine knows, as the strings their character codes spell
fromCharCodes(str) ==
  CASE str = <<>> -> ""
    [] str = <<98, 49>> -> "b1"
    [] str = <<98, 50>> -> "b2"
    [] OTHER -> "unreadable"

parseEventTypeByte(byte) ==
  CASE byte \in {0, 1} -> "fingerprint"
    [] byte \in {2, 15} -> "face"
    [] byte \in {3, 4} -> "card"
    [] OTHER -> "fingerprint"

\* parseDatFile(buffer): the logs pushed by the first i iterations of the loop
parseDatFile(buffer) ==
  LET recordCount == Len(buffer) \div recordSize
      baseDate == 10957 * DaySeconds
      readUInt32LE(off) ==
        buffer[off + 1] + 256 * buffer[off + 2] + 65536 * buffer[off + 3]
          + 16777216 * buffer[off + 4]
      logs[i \in 0..recordCount] ==
        IF i = 0 THEN <<>>
        ELSE LET offset == (i - 1) * recordSize
                 userIdBuffer == SubSeq(buffer, offset + 1, offset + 9)
                 ascii == [k \in 1..Len(userIdBuffer) |-> userIdBuffer[k] % 128]
                 userId == trim(SelectSeq(ascii, LAMBDA c : c # 0))
             IN  IF userId = <<>> THEN logs[i - 1]
                 ELSE Append(logs[i - 1],
                        [biometric_user_id |-> fromCharCodes(userId),
                         timestamp |-> baseDate + readUInt32LE(offset + 24),
                         event_type |-> parseEventTypeByte(buffer[offset + 29])])
  IN  [threw |-> FALSE, error |-> "", logs |-> logs[recordCount]]

parseEventTypeString(str) ==
  CASE str = "face" -> "face"
    [] str = "card" -> "card"
    [] OTHER -> "fingerprint"

\* parseCsvFile(buffer), the file given as the cells of its lines; includes is
\* String.prototype.includes on character codes, DateParse(cell) is
\* new Date(cell).getTime() in seconds, the empty set for an Invalid Date
parseCsvFile(file, z) ==
  LET includes(str, sub) ==
        \E i \in 0..(Len(str) - Len(sub)) : SubSeq(str, i + 1, i + Len(sub)) = sub
      DateParse(cell) ==
        IF cell = "2000-01-01 09:05:00" THEN {localInstant(10957, HMS(9, 5, 0), z)}
        ELSE {}
      toLowerCase(str) ==
        [k \in 1..Len(str) |-> IF str[k] \in 65..90 THEN str[k] + 32 ELSE str[k]]
      headers == [k \in 1..Len(file.header) |-> trim(toLowerCase(file.header[k]))]
      findIndex(a, b) ==
        IF \E k \in 1..Len(headers) : includes(headers[k], a) \/ includes(headers[k], b)
          THEN (CHOOSE k \in 1..Len(headers) :
                  /\ includes(headers[k], a) \/ includes(headers[k], b)
                  /\ \A j \in 1..(k - 1) :
                       ~(includes(headers[j], a) \/ includes(headers[j], b))) - 1
          ELSE 0 - 1
      userIdCol == findIndex(<<117, 115, 101, 114>>, <<105, 100>>)
      timestampCol == findIndex(<<116, 105, 109, 101>>, <<100, 97, 116, 101>>)
      eventCol == findIndex(<<101, 118, 101, 110, 116>>, <<116, 121, 112, 101>>)
      max == IF userIdCol > timestampCol THEN userIdCol ELSE timestampCol
      logs[i \in 0..Len(file.rows)] ==
        IF i = 0 THEN <<>>
        ELSE LET parts == file.rows[i]
             IN  IF Len(parts) > max
                      /\ parts[userIdCol + 1] # ""
                      /\ DateParse(parts[timestampCol + 1]) # {}
                   THEN Append(logs[i - 1],
                          [biometric_user_id |-> parts[userIdCol + 1],
                           timestamp |->
                             CHOOSE t \in DateParse(parts[timestampCol + 1]) : TRUE,
                           event_type |->
                             IF eventCol # 0 - 1 /\ Len(parts) > eventCol
                                  /\ parts[eventCol + 1] # ""
                               THEN parseEventTypeString(parts[eventCol + 1])
                               ELSE "fingerprint"])
                   ELSE logs[i - 1]
  IN  IF userIdCol = 0 - 1 \/ timestampCol = 0 - 1
        THEN [threw |-> TRUE, error |-> "CSV must have user_id and timestamp columns",
              logs |-> <<>>]
        ELSE [threw |-> FALSE, error |-> "", logs |-> logs[Len(file.rows)]]

parseFile(u, z) ==
  CASE u.ext = "dat" -> parseDatFile(u.dat)
    [] u.ext = "csv" -> parseCsvFile(u.csv, z)
    [] OTHER -> [threw |-> TRUE, error |-> "Unsupported file format", logs |-> <<>>]

\* POST /:id/import-usb for the terminal d1, up to the call of
\* processBatchScans, whose calls run in caller slot p; a throw of parseFile
\* goes to next(error)
importUsb(p) ==
  /\ usb.state = "uploaded"
  /\ batchPc = "idle"
  /\ pc[p] = "idle"
  /\ LET parsed == parseFile(usb, tz)
     IN  IF parsed.threw
           THEN /\ usb' = [usb EXCEPT !.state = "failed", !.error = parsed.error]
                /\ UNCHANGED batchVars
           ELSE /\ usb' = [usb EXCEPT !.state = "processing", !.logs = parsed.logs]
                /\ nbatches' = nbatches + 1
                /\ batchPc' = "for"
                /\ batchCaller' = p
                /\ batchScans' =
                     [k \in 1..Len(parsed.logs) |->
                        [biometric_user_id |-> parsed.logs[k].biometric_user_id,
                         timestamp |-> parsed.logs[k].timestamp,
                         device_id |-> "d1",
                         event_type |-> parsed.logs[k].event_type]]
                /\ batchResults' = <<>>
  /\ UNCHANGED <<env, deviceSide, codec, serial, tables, locals, ncalls, overlapped, sweepVars>>

\* processBatchScans has returned: the response of the route
importRespond ==
  /\ usb.state = "processing"
  /\ batchPc = "done"
  /\ usb' = [usb EXCEPT
               !.state = "responded",
               !.total_logs = Len(usb.logs),
               !.records_created =
                 Cardinality({k \in 1..Len(batchResults) : batchResults[k].success})]
  /\ batchPc' = "idle"
  /\ batchCaller' = 0
  /\ batchScans' = <<>>
  /\ batchResults' = <<>>
  /\ UNCHANGED <<env, deviceSide, codec, serial, tables, locals, ncalls, overlapped, sweepVars,
                 nbatches>>

\* a 40-byte record: the user id field at 0, the timestamp at 24, the event
\* byte at 28, the rest zero
Record(userId, seconds, eventByte) ==
  [k \in 1..recordSize |->
     CASE k <= Len(userId) -> userId[k]
       [] k \in 25..28 -> (seconds \div (256 ^ (k - 25))) % 256
       [] k = 29 -> eventByte
       [] OTHER -> 0]

\* the two records the terminal has written
ValidRecords ==
  {Record(<<98, 49>>, HMS(9, 5, 0), 1), Record(<<98, 50>>, HMS(9, 6, 0), 15)}

\* the files a user may upload: binary files of up to MaxRecords records (the
\* terminal's, an empty slot, a record overwritten with '?' bytes), with or
\* without a truncated last record; text files of one header line and up to
\* MaxRows data lines; a file of another extension
Uploads ==
  LET Records ==
        ValidRecords \cup {Record(<<>>, 0, 0), [k \in 1..recordSize |-> 63]}
      concat[n \in 0..MaxRecords] ==
        IF n = 0 THEN {<<>>} ELSE {buf \o rec : buf \in concat[n - 1], rec \in Records}
      DatFiles ==
        {[NewUsb EXCEPT !.state = "uploaded", !.ext = "dat", !.dat = buf \o tail] :
           buf \in UNION {concat[n] : n \in 0..MaxRecords}, tail \in {<<>>, <<98>>}}
      user_id == <<117, 115, 101, 114, 95, 105, 100>>
      device_id == <<100, 101, 118, 105, 99, 101, 95, 105, 100>>
      name == <<110, 97, 109, 101>>
      Timestamp == <<32, 84, 105, 109, 101, 115, 116, 97, 109, 112>>
      update == <<117, 112, 100, 97, 116, 101>>
      when == <<119, 104, 101, 110>>
      event_type == <<101, 118, 101, 110, 116, 95, 116, 121, 112, 101>>
      Headers ==
        {<<a, b>> \o c : a \in {user_id, device_id, name},
                         b \in {Timestamp, update, when},
                         c \in {<<>>, <<event_type>>}}
      Rows ==
        {<<a, b>> \o c : a \in {"b1", "d1", ""},
                         b \in {"2000-01-01 09:05:00", "soon"},
                         c \in {<<>>, <<"face">>}}
      CsvFiles ==
        {[NewUsb EXCEPT !.state = "uploaded", !.ext = "csv",
                        !.csv = [header |-> h, rows |-> rows]] :
           h \in Headers, rows \in UNION {[1..n -> Rows] : n \in 0..MaxRows}}
  IN  DatFiles \cup CsvFiles \cup {[NewUsb EXCEPT !.state = "uploaded", !.ext = "xls"]}

\* ------------------------------------------------------------ specification
Next ==
  \/ \E p \in Procs : \E r \in workload.scans : processScan(p, ScanDto(r, tz))
  \/ \E p \in Procs : storeRawLog(p)
  \/ \E p \in Procs : checkEventType(p)
  \/ \E p \in Procs : findStudent(p)
  \/ \E p \in Procs : findWindow(p)
  \/ \E p \in Procs : findExisting(p)
  \/ \E p \in Procs : save(p)
  \/ \E p \in Procs : markRawLogProcessed(p)
  \/ \E p \in Procs : logAttendanceAction(p)
  \/ \E p \in Procs : updateLastSyncTime(p)
  \/ \E p \in Procs : return(p)
  \/ \E arg \in workload.sweeps : autoMarkAbsentForSubject(arg)
  \/ loadAbsentStudents
  \/ insertAbsentRecord
  \/ sweepReturn
  \/ sweepAbort
  \/ sweepIdle

Spec == Init /\ [][Next]_vars

\* batches of scans, each item going through the steps of processFingerprintScan
BatchNext ==
  \/ \E p \in Procs : processBatchScans(p)
  \/ batchCall
  \/ \E p \in Procs : storeRawLog(p)
  \/ \E p \in Procs : checkEventType(p)
  \/ \E p \in Procs : findStudent(p)
  \/ \E p \in Procs : findWindow(p)
  \/ \E p \in Procs : findExisting(p)
  \/ \E p \in Procs : save(p)
  \/ \E p \in Procs : markRawLogProcessed(p)
  \/ \E p \in Procs : logAttendanceAction(p)
  \/ \E p \in Procs : updateLastSyncTime(p)
  \/ batchPush
  \/ batchReturn
  \/ batchIdle

BatchSpec == Init /\ [][BatchNext]_vars

\* the scheduler and the manual trigger against the terminals
Sessions == {1, 2}
Frames(S) ==
  {[command |-> CMD_ACK_OK, sessionId |-> n] : n \in S}
    \cup {[command |-> CMD_ACK_ERROR, sessionId |-> 0]}

NoWorkload == [scans |-> {}, sweeps |-> {}, history |-> <<>>]

\* empty tables, nothing submitted, nothing started
Quiet ==
  /\ tz = 0
  /\ workload = NoWorkload
  /\ rawLogs = <<>>
  /\ attendance = <<>>
  /\ createdBy = <<>>
  /\ lastSync = [d \in Device |-> 0]
  /\ auditLog = <<>>
  /\ callersIdle
  /\ devicesIdle

SyncInit == Quiet /\ standaloneIdle

\* what the network and the terminals may do, the terminals answering with
\* session ids of S
Network(S) ==
  \/ \E c \in ClientIds : \E n \in S : tcpEstablished(c, n)
  \/ \E c \in ClientIds : socketError(c)
  \/ \E c \in ClientIds : socketClose(c)
  \/ \E c \in ClientIds : \E f \in Frames(S) : frame(c, f)
  \/ \E c \in ClientIds : connectTimeout(c)
  \/ \E c \in ClientIds : fetchTimeout(c)

SyncNext ==
  \/ syncAllDevices
  \/ \E k \in 1..MaxCycles : cycleFound(k)
  \/ \E k \in 1..MaxCycles : cycleFindFailed(k)
  \/ \E k \in 1..MaxCycles : cycleSync(k)
  \/ \E k \in 1..MaxCycles : cycleResume(k)
  \/ \E k \in 1..MaxCycles : cycleDone(k)
  \/ \E id \in TriggerIds : triggerSync(id)
  \/ \E t \in 1..MaxTriggers : trigFound(t)
  \/ \E t \in 1..MaxTriggers : trigResume(t)
  \/ \E c \in ClientIds : stepConnected(c)
  \/ \E c \in ClientIds : stepCatch(c)
  \/ \E c \in ClientIds : stepFetched(c)
  \/ \E c \in ClientIds : stepUpdated(c)
  \/ \E c \in ClientIds : stepUpdateFailed(c)
  \/ Network({1})

SyncSpec == SyncInit /\ [][SyncNext]_vars

\* the scheduler constructed, started and stopped, its timers firing; each
\* callback runs syncAllDevices up to its first await
TimerNext ==
  \/ \E seconds \in {30, 120} : newScheduler(seconds)
  \/ start
  \/ stop
  \/ intervalTick
  \/ cronTick
  \/ warmUp

TimerSpec == SyncInit /\ [][TimerNext]_vars

\* the scheduler started and left running, its timers firing, its cycles
\* running against the terminals, up to MaxSteps sync steps in all
SchedNext ==
  \/ \E seconds \in {30, 120} : newScheduler(seconds)
  \/ start
  \/ intervalTick
  \/ cronTick
  \/ warmUp
  \/ \E k \in 1..MaxRuns : cycleFound(k)
  \/ \E k \in 1..MaxRuns : cycleFindFailed(k)
  \/ \E k \in 1..MaxRuns :
       Cardinality({c \in ClientIds : step[c] # NoValue}) < MaxSteps /\ cycleSync(k)
  \/ \E k \in 1..MaxRuns : cycleResume(k)
  \/ \E k \in 1..MaxRuns : cycleDone(k)
  \/ \E c \in ClientIds : stepConnected(c)
  \/ \E c \in ClientIds : stepCatch(c)
  \/ \E c \in ClientIds : stepFetched(c)
  \/ \E c \in ClientIds : stepUpdated(c)
  \/ \E c \in ClientIds : stepUpdateFailed(c)
  \/ Network({1})

SchedSpec == SyncInit /\ [][SchedNext]_vars

\* one client instance driven directly through its public methods
ClientNext ==
  \/ callConnect
  \/ callDisconnect
  \/ callGetAttendanceLogs
  \/ callGetDeviceTime
  \/ timeTimeout
  \/ Network(Sessions)

ClientSpec == SyncInit /\ [][ClientNext]_vars

\* the same, with the timers that setTimeout has armed firing in the end
ClientFairSpec ==
  /\ ClientSpec
  /\ WF_vars(connectTimeout(TheClient))
  /\ WF_vars(fetchTimeout(TheClient))
  /\ WF_vars(timeTimeout)

\* createPacket as a function of its arguments and of the instance's counters
CodecInit == Quiet /\ codec \in CodecStarts /\ serial = NewSerial /\ usb = NewUsb
CodecSpec == CodecInit /\ [][encode]_vars

\* the serial client, its port delivering any bytes in any chunks
SerialNext ==
  \/ \E ok \in BOOLEAN : serialOpen(ok)
  \/ serialDisconnect
  \/ \E n \in 1..MaxChunk : \E chunk \in [1..n -> {CR, 65, 66}] : serialData(chunk)
  \/ \E command \in {"GETLOGS", "GETUSERS"} : callSendCommand(command)
  \/ \E i \in 1..MaxRequests : \E ok \in BOOLEAN : serialWritten(i, ok)
  \/ \E i \in 1..MaxRequests : serialTimeout(i)

SerialSpec == SyncInit /\ [][SerialNext]_vars

\* one upload to the import route of a server with empty tables
ImportNext ==
  \/ \E p \in Procs : importUsb(p)
  \/ importRespond
  \/ batchCall
  \/ \E p \in Procs : storeRawLog(p)
  \/ \E p \in Procs : checkEventType(p)
  \/ \E p \in Procs : findStudent(p)
  \/ \E p \in Procs : findWindow(p)
  \/ \E p \in Procs : findExisting(p)
  \/ \E p \in Procs : save(p)
  \/ \E p \in Procs : markRawLogProcessed(p)
  \/ \E p \in Procs : logAttendanceAction(p)
  \/ \E p \in Procs : updateLastSyncTime(p)
  \/ batchPush
  \/ batchReturn

ImportInit == Quiet /\ codec = NewCodec /\ serial = NewSerial /\ usb \in Uploads
ImportSpec == ImportInit /\ [][ImportNext]_vars

\* ================================================================ properties
\* vocabulary of the properties
Callers == {p \in Procs : pc[p] # "idle"}
Finished == {p \in Procs : pc[p] = "done"}

\* the identity a scan names is known and active
knownActive(dto) ==
  \E s \in findByBiometricId(dto.biometric_user_id) : s.status = "active"

\* the schedule windows in progress at an instant, as the schedule defines them:
\* recurrence on the local calendar day, start_time <= time of day <= end_time
inProgress(w, ts, z) ==
  /\ (w.day_of_week = getDay(ts, z) \/ w.specific_date = (ts + z) \div DaySeconds)
  /\ w.start_time <= toTimeString(ts, z)
  /\ toTimeString(ts, z) <= w.end_time
subjectsInProgress(ts, z) == {w \in Subject : w.status = "active" /\ inProgress(w, ts, z)}
lecturesInProgress(ts, z) == {w \in Lecture : inProgress(w, ts, z)}

\* the window a scan is for: a subject in progress, else a lecture in progress
windowsOf(dto, z) ==
  IF subjectsInProgress(dto.timestamp, z) # {}
    THEN {[kind |-> "subject", id |-> w.subject_id] : w \in subjectsInProgress(dto.timestamp, z)}
    ELSE {[kind |-> "lecture", id |-> w.lecture_id] : w \in lecturesInProgress(dto.timestamp, z)}

\* a fingerprint scan of a known, active student inside a window.  Scans within
\* the odd seconds after the last whole minute of a window whose end_time carries
\* seconds are the matter of C8 and are left out here.
matchingScan(dto, z) ==
  /\ dto.event_type = "fingerprint"
  /\ knownActive(dto)
  /\ windowsOf(dto, z) # {}
  /\ \A w \in subjectsInProgress(dto.timestamp, z) :
        toTimeString(dto.timestamp, z) <= w.end_time - (w.end_time % MinuteSeconds)

studentOf(dto) == (CHOOSE s \in findByBiometricId(dto.biometric_user_id) : TRUE).student_id

\* the rows of one (student, window, date) key
keyRows(sid, w, d) ==
  {i \in DOMAIN attendance :
     /\ attendance[i].student_id = sid
     /\ IF w.kind = "subject" THEN attendance[i].subject_id = w.id
                               ELSE attendance[i].lecture_id = w.id
     /\ recordDate(attendance[i]) = d}

\* every (student, window, date) key some row belongs to
Keys ==
  {<<attendance[i].student_id,
     IF attendance[i].subject_id # NoValue
       THEN [kind |-> "subject", id |-> attendance[i].subject_id]
       ELSE [kind |-> "lecture", id |-> attendance[i].lecture_id],
     recordDate(attendance[i])>> : i \in DOMAIN attendance}

\* the student has no row in the window of a date other than d
noOtherDate(sid, w, d) ==
  \A i \in DOMAIN attendance :
     (/\ attendance[i].student_id = sid
      /\ IF w.kind = "subject" THEN attendance[i].subject_id = w.id
                                ELSE attendance[i].lecture_id = w.id)
     => recordDate(attendance[i]) = d

\* C1: concurrent processScan calls with fingerprint events of one known, active
\* student inside one window on one date leave exactly one AttendanceRecord for
\* that (student, window, date) key.  (No sweep has run and the student has no
\* rows of other dates in the window, so only the overlap of the calls is at work.)
C1_ConcurrentScansOneRecord ==
  \A p \in Finished :
     (/\ matchingScan(data[p], tz)
      /\ result[p] # "error"
      /\ nsweeps = 0
      /\ \A w \in windowsOf(data[p], tz) :
            noOtherDate(studentOf(data[p]), w, isoDate(data[p].timestamp)))
     => \A w \in windowsOf(data[p], tz) :
           Cardinality(keyRows(studentOf(data[p]), w, isoDate(data[p].timestamp))) = 1

\* C2: after processScan calls executed one at a time, with no sweep, at most
\* one AttendanceRecord exists per (student_id, window_id, date), also when the
\* student holds rows of the same window on other dates.
C2_SequentialScansOneRecord ==
  (~ overlapped /\ nsweeps = 0)
  => \A k \in Keys : Cardinality(keyRows(k[1], k[2], k[3])) <= 1

\* C3: with autoMarkAbsent interleaved with processScan calls for the same
\* window and date, no student has more than one AttendanceRecord for that
\* (window, date): where the scans alone left at most one present row, there is
\* no absent row beside it.
C3_SweepAndScanOneRecord ==
  \A k \in Keys :
     Cardinality({i \in keyRows(k[1], k[2], k[3]) : attendance[i].status = "present"}) <= 1
     => Cardinality(keyRows(k[1], k[2], k[3])) <= 1

\* C4: every processScan call persists exactly one RawLog for its event as its
\* first step: once a call is past that step its RawLog row exists and carries
\* the event, and there are as many rows as calls past that step (plus history).
C4_RawLogAlwaysStored ==
  /\ \A p \in Callers :
        pc[p] # "storeRawLog"
        => /\ rawLog[p] \in DOMAIN rawLogs
           /\ rawLogs[rawLog[p]].biometric_user_id = data[p].biometric_user_id
           /\ rawLogs[rawLog[p]].log_timestamp = data[p].timestamp
           /\ rawLogs[rawLog[p]].event_type = data[p].event_type
           /\ (pc[p] = "eventType" => ~ rawLogs[rawLog[p]].processed)
  /\ Len(rawLogs) =
       Len(workload.history) + ncalls - Cardinality({p \in Procs : pc[p] = "storeRawLog"})

\* C5: a card or face event never creates an AttendanceRecord, always creates a
\* RawLog, which ends processed=true; only fingerprint events reach identity
\* resolution.
C5_NonFingerprintRecordedOnly ==
  /\ \A p \in Finished :
        data[p].event_type \in {"card", "face"}
        => /\ result[p] = "null"
           /\ saved[p] = 0
           /\ rawLog[p] \in DOMAIN rawLogs
           /\ rawLogs[rawLog[p]].processed
  /\ \A p \in Callers :
        pc[p] \in {"findStudent", "findWindow", "findExisting", "save", "markProcessed",
                   "audit", "lastSync"}
        => data[p].event_type = "fingerprint"

\* C6: a fingerprint event whose biometric_user_id matches no Identity is
\* dropped without error: no AttendanceRecord, and its RawLog stays processed=false.
C6_UnknownIdentityDropped ==
  \A p \in Finished :
     (data[p].event_type = "fingerprint" /\ findByBiometricId(data[p].biometric_user_id) = {})
     => /\ result[p] = "null"
        /\ saved[p] = 0
        /\ rawLog[p] \in DOMAIN rawLogs
        /\ ~ rawLogs[rawLog[p]].processed

\* C7: processScan creates no present AttendanceRecord for an Identity that is
\* inactive or suspended; such a scan is dropped, not raised as an error.
C7_NotActiveDropped ==
  /\ \A i \in DOMAIN attendance :
        createdBy[i] = "processScan"
        => \A s \in Student : s.student_id = attendance[i].student_id => s.status = "active"
  /\ \A p \in Finished :
        (\E s \in findByBiometricId(data[p].biometric_user_id) : s.status # "active")
        => result[p] = "null" /\ saved[p] = 0

\* the scan was taken as falling inside a window / was turned away as outside
accepted(p) == reason[p] \in {"recorded", "duplicate"}
rejected(p) == reason[p] \in {"no_window", "outside_window"} /\ saved[p] = 0

\* active subject windows recurring on the scan's day
subjectsOfDay(ts, z) ==
  {w \in Subject :
     /\ w.status = "active"
     /\ (w.day_of_week = getDay(ts, z) \/ w.specific_date = (ts + z) \div DaySeconds)}

\* C8: for every active window on a matching day, a fingerprint scan of an
\* active student at exactly start_time or exactly end_time is accepted, and one
\* a second before start_time or a second after end_time is rejected.
C8_WindowBoundariesInclusive ==
  \A p \in Finished :
     (data[p].event_type = "fingerprint" /\ knownActive(data[p]) /\ result[p] # "error")
     => \A w \in subjectsOfDay(data[p].timestamp, tz) :
          LET t == toTimeString(data[p].timestamp, tz)
          IN /\ (t = w.start_time \/ t = w.end_time) => accepted(p)
             /\ (t = w.start_time - 1 \/ t = w.end_time + 1) => rejected(p)

\* C9: a fingerprint scan by a known, active student inside a matching window
\* (a Subject window, or a Lecture window when no Subject matches) for which no
\* AttendanceRecord exists yet for (student, window, date) creates a present
\* one: once the call is over the key has a row.
C9_MatchingScanRecorded ==
  \A p \in Finished :
     (matchingScan(data[p], tz) /\ result[p] # "error")
     => \A w \in windowsOf(data[p], tz) :
           keyRows(studentOf(data[p]), w, isoDate(data[p].timestamp)) # {}

recordedAudits == {i \in DOMAIN auditLog : auditLog[i].action = "attendance_recorded"}

\* C11: every present AttendanceRecord processScan commits, through a Subject
\* window or through the Lecture fallback, has its audit event by the time the
\* call returns the record, and there is never more than one such event per
\* record processScan created (so dropped scans add none).
C11_RecordedScanAudited ==
  /\ \A p \in Finished :
        result[p] = "record"
        => \E i \in recordedAudits :
              auditLog[i].target_id = student[p] /\ auditLog[i].subject_id = window[p].id
  /\ Cardinality(recordedAudits)
        <= Cardinality({i \in DOMAIN attendance : createdBy[i] = "processScan"})

\* the rows of a student under the (subject, date) key of the sweep's arguments
sweepRows(sid) ==
  keyRows(sid, [kind |-> "subject", id |-> sweepArg.subject_id], sweepArg.date)
madeAbsent(sid) == {i \in sweepRows(sid) : createdBy[i] = "autoMarkAbsent"}

\* C12: when autoMarkAbsent(window_id, date) has completed with no call
\* overlapping another, every active student of the window's stage has exactly
\* one AttendanceRecord for (window_id, date); each record the sweep created is
\* absent / system_auto with its scan timestamp at the window's start time on
\* that date; and it created none for a student who already had a record, who
\* is not active, or who is of another stage.
C12_SweepMarksAbsent ==
  (sweepPc = "done" /\ ~ overlapped)
  => \A subject \in subjectFindById(sweepArg.subject_id) :
       \A s \in Student :
          /\ (s.status = "active" /\ s.academic_stage = subject.academic_stage)
                => Cardinality(sweepRows(s.student_id)) = 1
          /\ \A i \in madeAbsent(s.student_id) :
                /\ attendance[i].status = "absent"
                /\ attendance[i].source = "system_auto"
                /\ attendance[i].scan_timestamp =
                      localInstant(sweepArg.date, subject.start_time, tz)
          /\ madeAbsent(s.student_id) # {}
                => /\ sweepRows(s.student_id) = madeAbsent(s.student_id)
                   /\ s.status = "active"
                   /\ s.academic_stage = subject.academic_stage

\* the operations ran one at a time, and every scan that left a row ran before
\* the first sweep that left one
scansThenSweeps ==
  /\ ~ overlapped
  /\ \A i, j \in DOMAIN attendance :
        (createdBy[i] = "processScan" /\ createdBy[j] = "autoMarkAbsent") => i < j

\* rows of a student under a sweep's (subject, date) key, by who inserted them
absentOf(sid, arg) ==
  {i \in keyRows(sid, [kind |-> "subject", id |-> arg.subject_id], arg.date) :
     createdBy[i] = "autoMarkAbsent"}
scannedOf(sid, arg) ==
  {i \in keyRows(sid, [kind |-> "subject", id |-> arg.subject_id], arg.date) :
     createdBy[i] = "processScan"}

\* C13: with autoMarkAbsent run again for the same window and date after a
\* complete run or after a run that stopped part-way through its inserts, no
\* student ever holds two absent records of the sweep or one beside a record a
\* scan had left; and when a run has completed, the records are those of one
\* complete run: one absent record for each active student of the stage whom
\* no scan had recorded, none for anyone else.
C13_SweepRerunIdempotent ==
  scansThenSweeps
  => \A arg \in workload.sweeps : \A subject \in subjectFindById(arg.subject_id) :
       \A s \in Student :
          /\ Cardinality(absentOf(s.student_id, arg)) <= 1
          /\ absentOf(s.student_id, arg) # {} => scannedOf(s.student_id, arg) = {}
          /\ (sweepPc = "done" /\ sweepArg = arg)
                => IF s \in findByAcademicStage(subject.academic_stage)
                        /\ scannedOf(s.student_id, arg) = {}
                     THEN \E i \in absentOf(s.student_id, arg) :
                             attendance[i] = absentRecord(s.student_id, subject, arg.date, tz)
                     ELSE absentOf(s.student_id, arg) = {}

\* a second run, started after the first stopped part-way, has loaded its list:
\* some student is already marked absent and another is still to be marked
C13_Witness ==
  /\ scansThenSweeps
  /\ nsweeps = 2
  /\ sweepPc = "insert"
  /\ absentStudents # <<>>
  /\ \E s \in Student : absentOf(s.student_id, sweepArg) # {}

\* the item's processing raises an error: its raw log is refused (see storeRawLog)
raises(dto) == dto.device_id = NoValue

\* C14: processBatchScans returns one result per input scan, in input order,
\* with success=false for exactly the items whose processing raised an error;
\* an item after a failing one is still processed (its raw log is stored), and
\* the results never run ahead of, or past, the input.
C14_BatchNeverAborts ==
  /\ Len(batchResults) <= Len(batchScans)
  /\ \A i \in DOMAIN batchResults :
        /\ batchResults[i].scan = batchScans[i]
        /\ batchResults[i].success = ~ raises(batchScans[i])
        /\ ~ raises(batchScans[i])
              => \E k \in DOMAIN rawLogs :
                    /\ rawLogs[k].log_timestamp = batchScans[i].timestamp
                    /\ rawLogs[k].biometric_user_id = batchScans[i].biometric_user_id
                    /\ rawLogs[k].event_type = batchScans[i].event_type
  /\ batchPc = "done" => Len(batchResults) = Len(batchScans)

\* a batch has returned whose first item failed and whose second item was
\* processed to a saved record
C14_Witness ==
  /\ batchPc = "done"
  /\ Len(batchResults) = 2
  /\ ~ batchResults[1].success
  /\ batchResults[2].success
  /\ batchResults[2].data \in DOMAIN attendance

\* the client holds no open transport and is Disconnected
tornDown(cl) == cl.socket \in {"null", "closed"} /\ ~ cl.connected

\* C19: after disconnect() returns, the client holds no open transport and is
\* Disconnected, in whatever state the call found it: Connected, still
\* Connecting, after a connect() that timed out or errored, or Disconnected.
C19_DisconnectTearsDown ==
  [][callDisconnect => tornDown(client[TheClient]')]_vars

\* index in the packets written of the last CONNECT packet (0: none)
lastConnectAt(sent) ==
  LET at == {i \in 1..Len(sent) : sent[i].command = CMD_CONNECT}
  IN IF at = {} THEN 0 ELSE CHOOSE i \in at : \A j \in at : j <= i

\* C20: a client is Connected only after a CONNECT packet with session id 0
\* and an ACK_OK frame after it; every packet written after that CONNECT, and
\* the next packet it would write, carries the session id field of that ACK_OK.
C20_SessionFromAck ==
  LET cl == client[TheClient]
      at == lastConnectAt(cl.sent)
  IN cl.connected =>
       /\ at > 0
       /\ cl.sent[at].sessionId = 0
       /\ cl.ackSession # NoSession
       /\ cl.sessionId = cl.ackSession
       /\ \A i \in (at + 1)..Len(cl.sent) : cl.sent[i].sessionId = cl.ackSession

\* the clients of cycle k, and the active devices a cycle can connect to
cycleClients(k) == {<<"cycle", k, d>> : d \in Device}
syncable == {d \in activeDevices : deviceRow(d).ip_address # NoValue}

\* C15: in one cycle, a failure while synchronizing one device never prevents
\* the sync of a later active device: a failure on a client of the cycle does
\* not end the process before every device of the cycle has had its sync
\* step, and a cycle that went through its loop has run the step for all.
C15_FailureIsolated ==
  \A k \in 1..MaxCycles :
    /\ crashed \in cycleClients(k) =>
         \A d \in syncable : step[<<"cycle", k, d>>] = "returned"
    /\ (cycle[k].pc = "done" /\ \E c \in cycleClients(k) : step[c] # NoValue) =>
         \A d \in syncable : step[<<"cycle", k, d>>] = "returned"

\* the sync steps of cycle k that have started and not yet returned
stepsInProgress(k) == {c \in cycleClients(k) : step[c] \notin {NoValue, "returned"}}

\* C16: within one cycle the devices are synchronized one after another: at
\* no time are the sync steps of two devices of the same cycle in progress.
C16_Sequential == \A k \in 1..MaxCycles : Cardinality(stepsInProgress(k)) <= 1

C16_Witness ==
  \E k \in 1..MaxCycles : \E c1, c2 \in cycleClients(k) :
    /\ step[c1] = "returned"
    /\ step[c2] = "connect"
    /\ alive

\* C17: a sync step that created a client has called disconnect() on it by
\* the time it returns, on every path.
C17_DisconnectCalled ==
  \A c \in ClientIds : step[c] = "returned" => client[c].called = "disconnect"

\* steps that returned after a connect failure, after a fetch failure and
\* after a fetch that resolved (update done or failed), all at once
C17_Witness ==
  /\ \E c \in ClientIds : step[c] = "returned" /\ client[c].connectP \in {"timeout", "error"}
  /\ \E c \in ClientIds : step[c] = "returned" /\ client[c].fetchP = "rejected"
  /\ \E c \in ClientIds :
       step[c] = "returned" /\ client[c].fetchP = "resolved" /\ lastSync[c[3]] > 0
  /\ \A c \in ClientIds : step[c] = "returned" => client[c].called = "disconnect"

\* the client of triggerSync call t
triggerClient(t) == <<"trigger", t, trigger[t].deviceId>>

\* C18: triggerSync never throws and always returns a { success, message }
\* result: no failure on its client ends the process while the call awaits
\* the sync step, a call that returned has a message, and for a device that
\* can be connected to it has run the per-device sync step to its return.
C18_TriggerReturnsResult ==
  \A t \in 1..MaxTriggers :
    /\ trigger[t].pc = "await" => crashed # triggerClient(t)
    /\ trigger[t].pc = "returned" =>
         /\ trigger[t].result.message # NoValue
         /\ trigger[t].deviceId \in Device =>
              (deviceRow(trigger[t].deviceId).ip_address # NoValue =>
                 step[triggerClient(t)] = "returned")

\* C21: a pending connect() does not stay pending: while the process lives
\* it is settled in the end; the step that fails it with the connection
\* timeout leaves the client not Connected, and it is never resolved without
\* an ACK_OK frame.
C21_ConnectTimesOut ==
  /\ (client[TheClient].connectP = "pending")
       ~> (client[TheClient].connectP # "pending" \/ ~ alive)
  /\ [][(client[TheClient].connectP = "pending" /\ client[TheClient]'.connectP = "timeout")
          => ~ client[TheClient]'.connected]_vars
  /\ [](client[TheClient].connectP = "resolved" => client[TheClient].ackSession # NoSession)

\* the transport opened, no ACK frame arrived, connect() failed by its timer
C21_Witness ==
  /\ client[TheClient].connectP = "timeout"
  /\ client[TheClient].socket = "open"
  /\ client[TheClient].ackSession = NoSession
  /\ ~ client[TheClient].connected

\* the terminal's ACK_ERROR frame
AckError == [command |-> CMD_ACK_ERROR, sessionId |-> 0]

\* C22: an ACK_ERROR frame that arrives while connect() is pending fails that
\* connect() with an error, there and then; it is not raised as an uncaught
\* exception, and the client is not Connected.
C22_AckErrorFailsConnect ==
  [][(client[TheClient].connectP = "pending" /\ frame(TheClient, AckError))
       => /\ alive'
          /\ client[TheClient]'.connectP = "error"
          /\ ~ client[TheClient]'.connected]_vars

\* C24: a request on a Connected client whose response does not arrive is
\* settled by its timer, and settled as resolved (with the partial or empty
\* result): the bulk request getAttendanceLogs and the control request
\* getDeviceTime alike.
C24_RequestTimeoutResolves ==
  [][/\ fetchTimeout(TheClient) => client[TheClient]'.fetchP = "resolved"
     /\ timeTimeout => client[TheClient]'.timeP = "resolved"]_vars

\* the reply id field of a packet
replyIdOf(packet) == readUInt16LE(packet, 6)

Reference(packet) ==
  LET z == [i \in 1..Len(packet) |-> IF i \in {3, 4} THEN 0 ELSE packet[i]]
      word(k) == z[2 * k - 1] + (IF 2 * k <= Len(z) THEN 256 * z[2 * k] ELSE 0)
      words == (Len(z) + 1) \div 2
      S[k \in 0..words] == IF k = 0 THEN 0 ELSE S[k - 1] + word(k)
  IN (UInt16 - (S[words] % UInt16)) % UInt16

\* C27: the checksum field of every packet equals the reference, and the
\* command, session id, reply id and payload decode back from the packet.
C27_ChecksumMatchesReference ==
  (codec.count > 0 /\ ~ codec.threw) =>
    /\ readUInt16LE(codec.packet, 2) = Reference(codec.packet)
    /\ readUInt16LE(codec.packet, 0) = codec.arg.command
    /\ readUInt16LE(codec.packet, 4) = codec.sessionId
    /\ replyIdOf(codec.packet) = codec.used
    /\ Len(codec.packet) = 8 + Len(codec.arg.data)
    /\ SubSeq(codec.packet, 9, Len(codec.packet)) = codec.arg.data

\* a packet with a payload of odd length ending in a non-zero byte
C27_Witness ==
  /\ codec.count > 0
  /\ ~ codec.threw
  /\ Len(codec.arg.data) = 3
  /\ codec.arg.data[3] = 255
  /\ readUInt16LE(codec.packet, 2) = Reference(codec.packet)

\* the frames of a byte stream: the runs of bytes closed by a CR, in order
RECURSIVE framesOf(_)
framesOf(bytes) ==
  LET crIndex == indexOf(bytes, CR)
  IN  IF crIndex = 0 - 1 THEN <<>>
      ELSE <<SubSeq(bytes, 1, crIndex)>>
             \o framesOf(SubSeq(bytes, crIndex + 2, Len(bytes)))

\* the bytes after the last CR of a byte stream
RECURSIVE unterminated(_)
unterminated(bytes) ==
  LET crIndex == indexOf(bytes, CR)
  IN  IF crIndex = 0 - 1 THEN bytes
      ELSE unterminated(SubSeq(bytes, crIndex + 2, Len(bytes)))

\* C25: whatever the chunks, the responses emitted are the CR-terminated
\* frames received, each once and in arrival order, and the buffer holds the
\* bytes after the last CR
C25_EveryFrameDelivered ==
  /\ serial.responses = framesOf(serial.received)
  /\ serial.buffer = unterminated(serial.received)

\* C26: a sendCommand call that resolved did so with the first frame received
\* after its request was written, one rejected for a port that is not open
\* wrote nothing, and only as many frames were written as calls wrote
C26_ResolvesWithNextFrame ==
  /\ \A i \in 1..Len(serial.calls) :
       LET call == serial.calls[i]
           frames == framesOf(serial.received)
       IN  /\ call.state = "resolved" =>
                /\ Len(frames) > call.after
                /\ call.value = frames[call.after + 1]
           /\ call.error = "Not connected to serial port" => ~call.wrote
  /\ Len(serial.written) =
       Cardinality({i \in 1..Len(serial.calls) : serial.calls[i].wrote})

\* the records of a binary file, and the event a record the terminal wrote
\* stands for
recordsOf(buffer) ==
  [i \in 1..(Len(buffer) \div recordSize) |->
     SubSeq(buffer, (i - 1) * recordSize + 1, i * recordSize)]
eventOf(rec) ==
  IF rec = Record(<<98, 49>>, HMS(9, 5, 0), 1)
    THEN [biometric_user_id |-> "b1",
          timestamp |-> 10957 * DaySeconds + HMS(9, 5, 0), event_type |-> "fingerprint"]
    ELSE [biometric_user_id |-> "b2",
          timestamp |-> 10957 * DaySeconds + HMS(9, 6, 0), event_type |-> "face"]
parsedDat == usb.ext = "dat" /\ usb.state # "uploaded"

\* C28: of a binary file of N complete records, one of them corrupted and the
\* others valid, the parser returns the N-1 events of the valid records, in
\* file order
C28_OneBadRecordSkipped ==
  LET recs == recordsOf(usb.dat)
      bad == {i \in 1..Len(recs) : recs[i] \notin ValidRecords}
      good == SelectSeq(recs, LAMBDA rec : rec \in ValidRecords)
  IN  (parsedDat /\ Len(usb.dat) % recordSize = 0 /\ Cardinality(bad) = 1) =>
        /\ usb.state # "failed"
        /\ usb.logs = [k \in 1..Len(good) |-> eventOf(good[k])]

\* C29: a CSV file whose header has no user-id column or no timestamp column
\* fails with the format error: no event, no processBatchScans call, no
\* processFingerprintScan call, no device_logs_raw or attendance row
C29_MissingColumnFails ==
  LET user_id == <<117, 115, 101, 114, 95, 105, 100>>
      Timestamp == <<32, 84, 105, 109, 101, 115, 116, 97, 109, 112>>
      cells == {usb.csv.header[k] : k \in 1..Len(usb.csv.header)}
  IN  (usb.ext = "csv" /\ usb.state # "uploaded"
         /\ (user_id \notin cells \/ Timestamp \notin cells)) =>
        /\ usb.state = "failed"
        /\ usb.error = "CSV must have user_id and timestamp columns"
        /\ usb.logs = <<>>
        /\ nbatches = 0 /\ ncalls = 0
        /\ rawLogs = <<>> /\ attendance = <<>>

\* C30: no step of the matching engine changes or removes an existing
\* attendance_records row, or removes a device_logs_raw row or changes it
\* otherwise than by setting processed from false to true
C30_RecordsWriteOnce ==
  [][/\ Len(attendance') >= Len(attendance)
     /\ \A i \in 1..Len(attendance) : attendance'[i] = attendance[i]
     /\ Len(rawLogs') >= Len(rawLogs)
     /\ \A i \in 1..Len(rawLogs) :
          \/ rawLogs'[i] = rawLogs[i]
          \/ /\ ~rawLogs[i].processed
             /\ rawLogs'[i] = [rawLogs[i] EXCEPT !.processed = TRUE]]_vars

\* a first scan has been recorded and marked processed, and later scans and a
\* sweep have written their rows after it
C30_Witness ==
  /\ Len(attendance) >= 2
  /\ createdBy[1] = "processScan"
  /\ \E i \in 2..Len(attendance) : createdBy[i] = "autoMarkAbsent"
  /\ Len(rawLogs) >= 2
  /\ rawLogs[1].processed
  /\ \E p \in Procs : pc[p] = "done" /\ rawLog[p] >= 2

C33_TriggerReflectsOutcome ==
  \A t \in 1..MaxTriggers :
    (/\ trigger[t].pc = "returned"
     /\ trigger[t].deviceId \in Device
     /\ step[triggerClient(t)] = "returned") =>
      (trigger[t].result.success <=>
         /\ client[triggerClient(t)].connectP = "resolved"
         /\ client[triggerClient(t)].fetchP = "resolved")

\* C32: at no time are the sync steps of two scheduler cycles in progress for
\* the same device.
C32_OneSessionPerDevice ==
  alive =>
    \A d \in Device :
      Cardinality({k \in 1..MaxRuns :
                     step[<<"cycle", k, d>>] \notin {NoValue, "returned"}}) <= 1

\* C34: while the scheduler is not running (stop() has returned, start() has
\* not been called again) no step starts a sync cycle.
C34_NoCycleWhileStopped ==
  [][ncycles' # ncycles => sched.isRunning]_vars

\* C35: at most one periodic timer drives syncAllDevices: the cron tasks not
\* stopped and, while the scheduler is running, the intervals not cleared
\* are one at most.
C35_OnePeriodicTimer ==
  sched.jobs + (IF sched.isRunning THEN sched.intervals ELSE 0) <= 1

\* C36: every present record that processFingerprintScan created for a
\* subject window is for a subject of the student's own academic stage, so
\* the student is among those the sweep of that window looks at.
C36_PresentInOwnStage ==
  \A i \in 1..Len(attendance) :
    (createdBy[i] = "processScan" /\ attendance[i].subject_id # NoValue) =>
      \E st \in Student : \E subj \in Subject :
        /\ st.student_id = attendance[i].student_id
        /\ subj.subject_id = attendance[i].subject_id
        /\ st.academic_stage = subj.academic_stage
        /\ st \in findByAcademicStage(subj.academic_stage)

\* C37: the records_created of the import route's response is the number of
\* attendance_records rows the import has inserted (the table being empty
\* before the upload).
C37_CountsCreatedRecords ==
  usb.state = "responded" =>
    usb.records_created =
      Cardinality({i \in 1..Len(attendance) : createdBy[i] = "processScan"})

\* ------------------------------------------------- servers off the meridian
\* process.env.TZ of the server: ten hours behind and ten hours ahead of UTC
ZoneOffsets == {0 - 10 * HourSeconds, 10 * HourSeconds}

\* The tables at the start of a run on such a server
ZoneInit ==
  /\ tz \in ZoneOffsets
  /\ workload \in Workloads
  /\ IF workload.history = <<>>
       THEN /\ rawLogs = <<>>
            /\ attendance = <<>>
            /\ createdBy = <<>>
            /\ lastSync = [d \in Device |-> 0]
            /\ auditLog = <<>>
       ELSE LET dto == ScanDto(workload.history[1], tz)
                sid == (CHOOSE s \in findByBiometricId(dto.biometric_user_id) : TRUE).student_id
                w == onlyWindow(dto.timestamp, tz)
            IN /\ rawLogs = <<rawLogRow(dto, TRUE)>>
               /\ attendance = <<presentRow(sid, w, dto, 1)>>
               /\ createdBy = <<"processScan">>
               /\ lastSync = [d \in Device |-> IF d = dto.device_id THEN 1 ELSE 0]
               /\ auditLog = IF w.kind = "subject"
                               THEN <<auditRow("attendance_recorded", sid, w.id)>>
                               ELSE <<>>
  /\ callersIdle
  /\ devicesIdle
  /\ standaloneIdle

ZoneSpec == ZoneInit /\ [][Next]_vars

\* C38: the calendar date processScan stores as the record's date (the one it
\* also uses for specific-date matching and in the dedup key) is the calendar
\* day whose day-of-week and time-of-day were matched against the window, that
\* is the server-local day of the scan, for every record inserted during the run.
C38_DateIsMatchedDay ==
  \A i \in (Len(workload.history) + 1)..Len(attendance) :
    (createdBy[i] = "processScan" /\ attendance[i].attendance_date # NoDay) =>
      attendance[i].attendance_date = (attendance[i].scan_timestamp + tz) \div DaySeconds

====
